---------------------------- MODULE Spec2Model ----------------------------
(***************************************************************************)
(* Huff Neo web editor: the App component (file selection, editing, the    *)
(* debounced auto-compilation, the asynchronous compile requests, the      *)
(* editor highlight) and the BytecodeViewer component (the segments memo,  *)
(* parseOpcodes, handleSegmentHover).                                      *)
(*                                                                         *)
(* JavaScript strings are sequences of one-character strings; a value      *)
(* that may be null or undefined is a sequence of length 0 (absent) or 1.  *)
(***************************************************************************)
EXTENDS Integers, Sequences, FiniteSets, TLC

VARIABLES
    files,              \* useState files: node id -> node record
    selectedFile,       \* useState selectedFile: absent (null) or a node id
    currentContent,     \* useState currentContent: the editor text
    compileResult,      \* useState compileResult: absent (null) or a CompileResult
    isCompiling,        \* useState isCompiling
    editorInstance,     \* useState editorInstance: absent or the editor last mounted
    showRuntime,        \* useState showRuntime
    autoCompile,        \* useState autoCompile
    decorationsRef,     \* useRef decorationsRef.current: decoration handles
    timers,             \* pending window.setTimeout callbacks of the debounce effect
    inFlight,           \* the requests (by number) awaiting huffCompiler.compile
    lastRequest,        \* history: the request issued last, number nextSeq - 1
    nextSeq,            \* history: number of requests issued so far, plus one
    appliedSeq,         \* history: the request whose result compileResult holds (0: none)
    wasmResult,         \* history: the compile call (fileName, wasmCompile's result or
                        \* throw) that compileResult was computed from, if any
    editorDecorations,  \* the decorations the editor holds: records [id, range]
    nextDecorationId,   \* the next handle deltaDecorations hands out
    revealed,           \* the position the editor last scrolled to (absent: never)
    commandClosure,     \* state captured by the commands of the mounted editor;
                        \* shared: the folders whose object its tree shares
                        \* with files (absent: no editor is mounted)
    mountRender,        \* the render in which the <MonacoEditor> now rendered
                        \* was created, as its onMount prop captured it (absent:
                        \* none is rendered, or its onMount was called)
    hoveredSegment,     \* BytecodeViewer useState hoveredSegment
    parse,              \* the locals of one parseOpcodes call: bytes, i, result
    clock,              \* Date.now() as handleFileCreate reads it, counted in
                        \* calls of handleFileCreate since the first render
    saves,              \* history: the runs of the Cmd/Ctrl+S command, modulo 2
    burst               \* history: the text changes made in a row, each while
                        \* the timer of the one before was pending: 0 none,
                        \* 1 one, 2 two or more

vars == <<files, selectedFile, currentContent, compileResult, isCompiling,
          editorInstance, showRuntime, autoCompile, decorationsRef, timers,
          inFlight, lastRequest, nextSeq, appliedSeq, wasmResult, editorDecorations,
          nextDecorationId,
          revealed, commandClosure, mountRender, hoveredSegment, parse, clock, saves,
          burst>>

---------------------------------------------------------------------------
(* Optional values and JavaScript string primitives.                       *)

None == <<>>
Some(x) == <<x>>
IsSome(o) == Len(o) = 1
Get(o) == o[1]

Min(a, b) == IF a < b THEN a ELSE b
Max(a, b) == IF a > b THEN a ELSE b

\* An index of String.prototype.slice: a negative one counts from the end
\* of the string (max(len + k, 0)), any other clamps to the length.
SliceIndex(len, k) == IF k < 0 THEN Max(len + k, 0) ELSE Min(k, len)

\* String.prototype.slice(a, b)
Slice(s, a, b) ==
    LET lo == SliceIndex(Len(s), a)
        hi == SliceIndex(Len(s), b)
    IN  IF lo < hi THEN SubSeq(s, lo + 1, hi) ELSE <<>>

\* String.prototype.slice(a): to the end of the string.
SliceFrom(s, a) == Slice(s, a, Len(s))

\* String.prototype.startsWith('0x')
StartsWith0x(s) == Len(s) >= 2 /\ s[1] = "0" /\ s[2] = "x"

\* All sequences over S of length at most n.
SeqsUpTo(S, n) == UNION {[1..k -> S] : k \in 0..n}

RECURSIVE Concat(_)
Concat(ss) == IF ss = <<>> THEN <<>> ELSE Head(ss) \o Concat(Tail(ss))

RECURSIVE Repeat(_, _)
Repeat(s, n) == IF n = 0 THEN <<>> ELSE s \o Repeat(s, n - 1)

---------------------------------------------------------------------------
(* huffCompiler.ts: the internal source map entries.                       *)

\* Mutant: the program counter is not converted to hex characters.
ConvertEntry_ByteOffsets(entry) ==
    [byte_offset  |-> entry.pc,
     length       |-> entry.bytecode_length * 2,
     source_start |-> entry.source_start,
     source_end   |-> entry.source_start + entry.source_length]

\* The conversion of one compiler entry (pc, bytecode_length, source_start,
\* source_length) to an InternalSourceMapEntry.
ConvertEntry(entry) ==
    [byte_offset  |-> entry.pc * 2,
     length       |-> entry.bytecode_length * 2,
     source_start |-> entry.source_start,
     source_end   |-> entry.source_start + entry.source_length]

\* contract.constructor_map?.map(...) and contract.runtime_map?.map(...)
ConvertMap(rawMap) ==
    IF IsSome(rawMap)
    THEN Some([k \in 1..Len(Get(rawMap)) |-> ConvertEntry(Get(rawMap)[k])])
    ELSE None

\* The CompileResult of a successful compilation.
SuccessResult(bytecode, runtime, constructor_map, runtime_map) ==
    [success         |-> TRUE,
     bytecode        |-> Some(bytecode),
     runtime         |-> Some(runtime),
     constructor_map |-> constructor_map,
     runtime_map     |-> runtime_map,
     errors          |-> None]

\* The CompileResult of a failed compilation.
FailureResult(errors) ==
    [success         |-> FALSE,
     bytecode        |-> None,
     runtime         |-> None,
     constructor_map |-> None,
     runtime_map     |-> None,
     errors          |-> Some(errors)]

\* `a || b` on optional strings: a when it is defined and not empty.
OrElse(a, b) == IF IsSome(a) /\ Get(a) # <<>> THEN a ELSE b

\* The result compile returns for a contract found in the contracts map.
ContractResult(contract) ==
    SuccessResult(Get(OrElse(contract.bytecode, OrElse(contract.runtime, Some(<<"0", "x">>)))),
                  Get(OrElse(contract.runtime, OrElse(contract.bytecode, Some(<<"0", "x">>)))),
                  ConvertMap(contract.constructor_map),
                  ConvertMap(contract.runtime_map))

\* fileName.replace('.huff', ''): the first occurrence of .huff removed.
ReplaceHuff(fileName) ==
    LET at == {k \in 1..(Len(fileName) - 4) : SubSeq(fileName, k, k + 4) = ".huff"}
    IN  IF at = {} THEN fileName
        ELSE LET k == CHOOSE k \in at : \A j \in at : k <= j
             IN  SubSeq(fileName, 1, k - 1) \o SubSeq(fileName, k + 5, Len(fileName))

\* possibleKeys of compile
PossibleKeys(fileName) == <<fileName, "./" \o fileName, ReplaceHuff(fileName)>>

\* contractsMap.get(key): the contracts map is a list of [key, contract]
\* in insertion order, its keys distinct.
MapGet(contractsMap, key) ==
    LET at == {k \in 1..Len(contractsMap) : contractsMap[k].key = key}
    IN  IF at = {} THEN None ELSE Some(contractsMap[CHOOSE k \in at : TRUE].contract)

NoBytecodeGenerated == "No bytecode generated - check your Huff code for syntax errors"

\* Mutant: the contracts are looked at before the errors.
Compile_ContractsFirst(fileName, result) ==
    IF IsSome(result.thrown)
    THEN FailureResult(<<IF Get(result.thrown).isError
                         THEN Get(result.thrown).message ELSE "Compilation failed">>)
    ELSE IF IsSome(result.contracts) /\ Len(Get(result.contracts)) > 0
    THEN ContractResult(Get(result.contracts)[1].contract)
    ELSE IF IsSome(result.errors) /\ Len(Get(result.errors)) > 0
    THEN FailureResult(Get(result.errors))
    ELSE FailureResult(<<NoBytecodeGenerated>>)

\* Mutant: an empty error list is a failure too.
Compile_AnyErrors(fileName, result) ==
    IF IsSome(result.thrown)
    THEN FailureResult(<<IF Get(result.thrown).isError
                         THEN Get(result.thrown).message ELSE "Compilation failed">>)
    ELSE IF IsSome(result.errors)
    THEN FailureResult(Get(result.errors))
    ELSE FailureResult(<<NoBytecodeGenerated>>)

\* HuffCompiler.compile(source, fileName) given what wasmCompile does:
\* `result` is [thrown, errors, contracts], thrown absent when wasmCompile
\* returns, else the value thrown ([isError, message]).
Compile(fileName, result) ==
    IF IsSome(result.thrown)
    THEN FailureResult(<<IF Get(result.thrown).isError
                         THEN Get(result.thrown).message ELSE "Compilation failed">>)
    ELSE IF IsSome(result.errors) /\ Len(Get(result.errors)) > 0
    THEN FailureResult(Get(result.errors))
    ELSE IF ~IsSome(result.contracts)
    THEN FailureResult(<<NoBytecodeGenerated>>)
    ELSE LET contractsMap == Get(result.contracts)
             keys == PossibleKeys(fileName)
             hits == {k \in 1..Len(keys) : IsSome(MapGet(contractsMap, keys[k]))}
         IN  IF hits # {}
             THEN ContractResult(
                      Get(MapGet(contractsMap,
                                 keys[CHOOSE k \in hits : \A j \in hits : k <= j])))
             ELSE IF Len(contractsMap) > 0
                  THEN ContractResult(contractsMap[1].contract)
                  ELSE FailureResult(<<NoBytecodeGenerated>>)

---------------------------------------------------------------------------
(* BytecodeViewer: the segments memo.                                      *)

\* [...sourceMap].sort((a, b) => a.byte_offset - b.byte_offset): a stable
\* sort, here by insertion from the left.
RECURSIVE InsertSorted(_, _)
InsertSorted(sorted, entry) ==
    IF sorted = <<>> THEN <<entry>>
    ELSE LET last == sorted[Len(sorted)]
         IN  IF last.byte_offset <= entry.byte_offset
             THEN Append(sorted, entry)
             ELSE Append(InsertSorted(SubSeq(sorted, 1, Len(sorted) - 1), entry), last)

RECURSIVE SortByOffset(_)
SortByOffset(map) ==
    IF map = <<>> THEN <<>>
    ELSE InsertSorted(SortByOffset(SubSeq(map, 1, Len(map) - 1)), map[Len(map)])

UnmappedSegment(offset, bytes) ==
    [offset |-> offset, bytes |-> bytes, sourceStart |-> None, sourceEnd |-> None]

MappedSegment(clean, entry) ==
    [offset      |-> entry.byte_offset,
     bytes       |-> Slice(clean, entry.byte_offset, entry.byte_offset + entry.length),
     sourceStart |-> Some(entry.source_start),
     sourceEnd   |-> Some(entry.source_end)]

\* One iteration of `for (const entry of sortedMap)`: the segments pushed for
\* the entry, given lastOffset.
EntrySegments(clean, entry, lastOffset) ==
    (IF entry.byte_offset > lastOffset
     THEN <<UnmappedSegment(lastOffset, Slice(clean, lastOffset, entry.byte_offset))>>
     ELSE <<>>)
    \o <<MappedSegment(clean, entry)>>

\* The loop over sortedMap from entry k on, then the remaining unmapped bytes.
RECURSIVE WalkEntries(_, _, _, _)
WalkEntries(clean, sortedMap, k, lastOffset) ==
    IF k > Len(sortedMap)
    THEN IF lastOffset < Len(clean)
         THEN <<UnmappedSegment(lastOffset, SliceFrom(clean, lastOffset))>>
         ELSE <<>>
    ELSE EntrySegments(clean, sortedMap[k], lastOffset)
         \o WalkEntries(clean, sortedMap, k + 1,
                        sortedMap[k].byte_offset + sortedMap[k].length)

CleanBytecode(bytecode) ==
    IF StartsWith0x(bytecode) THEN SliceFrom(bytecode, 2) ELSE bytecode

\* Mutant: without a map the remainder rule is used, so an empty bytecode
\* has no segment.
Segments_RemainderOnly(bytecode, sourceMap) ==
    LET clean == CleanBytecode(bytecode)
    IN  IF ~IsSome(sourceMap) \/ Len(Get(sourceMap)) = 0
        THEN IF 0 < Len(clean) THEN <<UnmappedSegment(0, clean)>> ELSE <<>>
        ELSE WalkEntries(clean, SortByOffset(Get(sourceMap)), 1, 0)

\* useMemo segments of (bytecode, sourceMap); sourceMap is optional.
Segments(bytecode, sourceMap) ==
    LET clean == CleanBytecode(bytecode)
    IN  IF ~IsSome(sourceMap) \/ Len(Get(sourceMap)) = 0
        THEN <<UnmappedSegment(0, clean)>>
        ELSE WalkEntries(clean, SortByOffset(Get(sourceMap)), 1, 0)


---------------------------------------------------------------------------
(* App: the source map and bytecode handed to BytecodeViewer.              *)

\* Mutant: the runtime entries are appended without the shift.
ReconstructBytecodeMap_NoShift(constructorMap, runtimeMap, constructorLength) ==
    IF ~IsSome(constructorMap) /\ ~IsSome(runtimeMap) THEN None
    ELSE LET result ==
                 (IF IsSome(constructorMap) THEN Get(constructorMap) ELSE <<>>)
                 \o (IF IsSome(runtimeMap) THEN Get(runtimeMap) ELSE <<>>)
         IN  IF Len(result) > 0 THEN Some(result) ELSE None

\* Mutant: the runtime entries are shifted only beside a constructor map.
ReconstructBytecodeMap_ShiftNeedsMap(constructorMap, runtimeMap, constructorLength) ==
    IF ~IsSome(constructorMap) /\ ~IsSome(runtimeMap) THEN None
    ELSE LET shift == IF IsSome(constructorMap) /\ IsSome(constructorLength)
                      THEN Get(constructorLength) ELSE 0
             result ==
                 (IF IsSome(constructorMap) THEN Get(constructorMap) ELSE <<>>)
                 \o (IF IsSome(runtimeMap)
                     THEN [k \in 1..Len(Get(runtimeMap)) |->
                              [Get(runtimeMap)[k] EXCEPT !.byte_offset = @ + shift]]
                     ELSE <<>>)
         IN  IF Len(result) > 0 THEN Some(result) ELSE None

\* Mutant: the runtime entries are appended only with a constructor length.
ReconstructBytecodeMap_NeedsLength(constructorMap, runtimeMap, constructorLength) ==
    IF ~IsSome(constructorMap) /\ ~IsSome(runtimeMap) THEN None
    ELSE LET truthyLength == IsSome(constructorLength) /\ Get(constructorLength) # 0
             fromConstructor ==
                 IF IsSome(constructorMap) THEN Get(constructorMap) ELSE <<>>
             fromRuntime ==
                 IF IsSome(runtimeMap) /\ truthyLength
                 THEN [k \in 1..Len(Get(runtimeMap)) |->
                          [Get(runtimeMap)[k] EXCEPT
                              !.byte_offset = @ + Get(constructorLength)]]
                 ELSE <<>>
             result == fromConstructor \o fromRuntime
         IN  IF Len(result) > 0 THEN Some(result) ELSE None

\* reconstructBytecodeMap(constructorMap?, runtimeMap?, constructorLength?):
\* all three arguments are optional; the result is a list or undefined.
ReconstructBytecodeMap(constructorMap, runtimeMap, constructorLength) ==
    IF ~IsSome(constructorMap) /\ ~IsSome(runtimeMap) THEN None
    ELSE LET truthyLength == IsSome(constructorLength) /\ Get(constructorLength) # 0
             fromConstructor ==
                 IF IsSome(constructorMap) THEN Get(constructorMap) ELSE <<>>
             fromRuntime ==
                 IF IsSome(runtimeMap) /\ truthyLength
                 THEN [k \in 1..Len(Get(runtimeMap)) |->
                          [Get(runtimeMap)[k] EXCEPT
                              !.byte_offset = @ + Get(constructorLength)]]
                 ELSE IF IsSome(runtimeMap) /\ ~truthyLength
                      THEN Get(runtimeMap)
                      ELSE <<>>
             result == fromConstructor \o fromRuntime
         IN  IF Len(result) > 0 THEN Some(result) ELSE None

\* A JavaScript string is truthy when it is defined and not empty.
TruthyString(o) == IsSome(o) /\ Get(o) # <<>>

\* The constructorLength argument currentSourceMap passes.
ConstructorLength(result) ==
    IF TruthyString(result.bytecode) /\ TruthyString(result.runtime)
    THEN Len(Get(result.bytecode)) - Len(Get(result.runtime))
    ELSE 0

\* useMemo currentSourceMap of (compileResult, showRuntime)
CurrentSourceMap(result, runtimeView) ==
    IF ~IsSome(result) \/ ~Get(result).success THEN None
    ELSE IF runtimeView
         THEN Get(result).runtime_map
         ELSE ReconstructBytecodeMap(Get(result).constructor_map,
                                     Get(result).runtime_map,
                                     Some(ConstructorLength(Get(result))))

\* useMemo currentBytecode of (compileResult, showRuntime)
CurrentBytecode(result, runtimeView) ==
    IF ~IsSome(result) \/ ~Get(result).success THEN <<>>
    ELSE LET shown == IF runtimeView THEN Get(result).runtime ELSE Get(result).bytecode
         IN  IF TruthyString(shown) THEN Get(shown) ELSE <<>>

\* BytecodeViewer is rendered only for a successful compileResult.
ViewerRendered == IsSome(compileResult) /\ Get(compileResult).success

\* The segments BytecodeViewer currently shows.
segments ==
    Segments(CurrentBytecode(compileResult, showRuntime),
             CurrentSourceMap(compileResult, showRuntime))

---------------------------------------------------------------------------
(* App: the file tree, the editor text, the compile requests.              *)

\* Bounds of the model.
MaxRequests == 3        \* compile requests issued in one run
MaxCreated == 2         \* calls of handleFileCreate in one run
MaxDecorations == 2     \* decoration handles handed out in one run

\* A text is the sequence of its UTF-16 code units.  A printable ASCII
\* character, "\t", "\n", "\r" or "\f" stands for itself; every other code
\* unit is written "U+XXXX", XXXX being its four hexadecimal digits.

\* The contents of the three sample files of initialFiles.
SimpleStoreSource ==
    <<"/", "/", " ", "S", "i", "m", "p", "l", "e", " ", "S", "t",
      "o", "r", "a", "g", "e", " ", "C", "o", "n", "t", "r", "a",
      "c", "t", "\n",
      "#", "d", "e", "f", "i", "n", "e", " ", "c", "o", "n", "s",
      "t", "a", "n", "t", " ", "V", "A", "L", "U", "E", "_", "S",
      "L", "O", "T", " ", "=", " ", "F", "R", "E", "E", "_", "S",
      "T", "O", "R", "A", "G", "E", "_", "P", "O", "I", "N", "T",
      "E", "R", "(", ")", "\n",
      "\n",
      "/", "/", " ", "I", "n", "t", "e", "r", "f", "a", "c", "e",
      "\n",
      "#", "d", "e", "f", "i", "n", "e", " ", "f", "u", "n", "c",
      "t", "i", "o", "n", " ", "s", "e", "t", "V", "a", "l", "u",
      "e", "(", "u", "i", "n", "t", "2", "5", "6", ")", " ", "n",
      "o", "n", "p", "a", "y", "a", "b", "l", "e", " ", "r", "e",
      "t", "u", "r", "n", "s", " ", "(", ")", "\n",
      "#", "d", "e", "f", "i", "n", "e", " ", "f", "u", "n", "c",
      "t", "i", "o", "n", " ", "g", "e", "t", "V", "a", "l", "u",
      "e", "(", ")", " ", "v", "i", "e", "w", " ", "r", "e", "t",
      "u", "r", "n", "s", " ", "(", "u", "i", "n", "t", "2", "5",
      "6", ")", "\n",
      "\n",
      "/", "/", " ", "S", "t", "o", "r", "e", " ", "v", "a", "l",
      "u", "e", "\n",
      "#", "d", "e", "f", "i", "n", "e", " ", "m", "a", "c", "r",
      "o", " ", "S", "E", "T", "_", "V", "A", "L", "U", "E", "(",
      ")", " ", "=", " ", "t", "a", "k", "e", "s", "(", "1", ")",
      " ", "r", "e", "t", "u", "r", "n", "s", "(", "0", ")", " ",
      "{", "\n",
      " ", " ", " ", " ", "[", "V", "A", "L", "U", "E", "_", "S",
      "L", "O", "T", "]", " ", "s", "s", "t", "o", "r", "e", "\n",
      "}", "\n",
      "\n",
      "/", "/", " ", "L", "o", "a", "d", " ", "v", "a", "l", "u",
      "e", " ", " ", "\n",
      "#", "d", "e", "f", "i", "n", "e", " ", "m", "a", "c", "r",
      "o", " ", "G", "E", "T", "_", "V", "A", "L", "U", "E", "(",
      ")", " ", "=", " ", "t", "a", "k", "e", "s", "(", "0", ")",
      " ", "r", "e", "t", "u", "r", "n", "s", "(", "1", ")", " ",
      "{", "\n",
      " ", " ", " ", " ", "[", "V", "A", "L", "U", "E", "_", "S",
      "L", "O", "T", "]", " ", "s", "l", "o", "a", "d", "\n",
      "}", "\n",
      "\n",
      "/", "/", " ", "M", "a", "i", "n", " ", "d", "i", "s", "p",
      "a", "t", "c", "h", "\n",
      "#", "d", "e", "f", "i", "n", "e", " ", "m", "a", "c", "r",
      "o", " ", "M", "A", "I", "N", "(", ")", " ", "=", " ", "t",
      "a", "k", "e", "s", "(", "0", ")", " ", "r", "e", "t", "u",
      "r", "n", "s", "(", "0", ")", " ", "{", "\n",
      " ", " ", " ", " ", "/", "/", " ", "L", "o", "a", "d", " ",
      "f", "u", "n", "c", "t", "i", "o", "n", " ", "s", "e", "l",
      "e", "c", "t", "o", "r", "\n",
      " ", " ", " ", " ", "0", "x", "0", "0", " ", "c", "a", "l",
      "l", "d", "a", "t", "a", "l", "o", "a", "d", " ", "0", "x",
      "e", "0", " ", "s", "h", "r", "\n",
      " ", " ", " ", " ", "\n",
      " ", " ", " ", " ", "/", "/", " ", "D", "i", "s", "p", "a",
      "t", "c", "h", "\n",
      " ", " ", " ", " ", "d", "u", "p", "1", " ", "_", "_", "F",
      "U", "N", "C", "_", "S", "I", "G", "(", "s", "e", "t", "V",
      "a", "l", "u", "e", ")", " ", "e", "q", " ", "s", "e", "t",
      "_", "v", "a", "l", "u", "e", " ", "j", "u", "m", "p", "i",
      "\n",
      " ", " ", " ", " ", "d", "u", "p", "1", " ", "_", "_", "F",
      "U", "N", "C", "_", "S", "I", "G", "(", "g", "e", "t", "V",
      "a", "l", "u", "e", ")", " ", "e", "q", " ", "g", "e", "t",
      "_", "v", "a", "l", "u", "e", " ", "j", "u", "m", "p", "i",
      "\n",
      " ", " ", " ", " ", "\n",
      " ", " ", " ", " ", "/", "/", " ", "R", "e", "v", "e", "r",
      "t", " ", "i", "f", " ", "n", "o", " ", "m", "a", "t", "c",
      "h", "\n",
      " ", " ", " ", " ", "0", "x", "0", "0", " ", "0", "x", "0",
      "0", " ", "r", "e", "v", "e", "r", "t", "\n",
      " ", " ", " ", " ", "\n",
      " ", " ", " ", " ", "s", "e", "t", "_", "v", "a", "l", "u",
      "e", ":", "\n",
      " ", " ", " ", " ", " ", " ", " ", " ", "0", "x", "0", "4",
      " ", "c", "a", "l", "l", "d", "a", "t", "a", "l", "o", "a",
      "d", "\n",
      " ", " ", " ", " ", " ", " ", " ", " ", "S", "E", "T", "_",
      "V", "A", "L", "U", "E", "(", ")", "\n",
      " ", " ", " ", " ", " ", " ", " ", " ", "s", "t", "o", "p",
      "\n",
      " ", " ", " ", " ", " ", " ", " ", " ", "\n",
      " ", " ", " ", " ", "g", "e", "t", "_", "v", "a", "l", "u",
      "e", ":", "\n",
      " ", " ", " ", " ", " ", " ", " ", " ", "G", "E", "T", "_",
      "V", "A", "L", "U", "E", "(", ")", "\n",
      " ", " ", " ", " ", " ", " ", " ", " ", "0", "x", "0", "0",
      " ", "m", "s", "t", "o", "r", "e", "\n",
      " ", " ", " ", " ", " ", " ", " ", " ", "0", "x", "2", "0",
      " ", "0", "x", "0", "0", " ", "r", "e", "t", "u", "r", "n",
      "\n",
      "}">>
CounterSource ==
    <<"/", "/", " ", "C", "o", "u", "n", "t", "e", "r", " ", "C",
      "o", "n", "t", "r", "a", "c", "t", "\n",
      "#", "d", "e", "f", "i", "n", "e", " ", "c", "o", "n", "s",
      "t", "a", "n", "t", " ", "C", "O", "U", "N", "T", "E", "R",
      " ", "=", " ", "F", "R", "E", "E", "_", "S", "T", "O", "R",
      "A", "G", "E", "_", "P", "O", "I", "N", "T", "E", "R", "(",
      ")", "\n",
      "\n",
      "#", "d", "e", "f", "i", "n", "e", " ", "f", "u", "n", "c",
      "t", "i", "o", "n", " ", "i", "n", "c", "r", "e", "m", "e",
      "n", "t", "(", ")", " ", "n", "o", "n", "p", "a", "y", "a",
      "b", "l", "e", " ", "r", "e", "t", "u", "r", "n", "s", " ",
      "(", ")", "\n",
      "#", "d", "e", "f", "i", "n", "e", " ", "f", "u", "n", "c",
      "t", "i", "o", "n", " ", "g", "e", "t", "C", "o", "u", "n",
      "t", "(", ")", " ", "v", "i", "e", "w", " ", "r", "e", "t",
      "u", "r", "n", "s", " ", "(", "u", "i", "n", "t", "2", "5",
      "6", ")", "\n",
      "\n",
      "#", "d", "e", "f", "i", "n", "e", " ", "m", "a", "c", "r",
      "o", " ", "I", "N", "C", "R", "E", "M", "E", "N", "T", "(",
      ")", " ", "=", " ", "t", "a", "k", "e", "s", "(", "0", ")",
      " ", "r", "e", "t", "u", "r", "n", "s", "(", "0", ")", " ",
      "{", "\n",
      " ", " ", " ", " ", "[", "C", "O", "U", "N", "T", "E", "R",
      "]", " ", "s", "l", "o", "a", "d", " ", " ", " ", " ", " ",
      "/", "/", " ", "[", "c", "o", "u", "n", "t", "]", "\n",
      " ", " ", " ", " ", "0", "x", "0", "1", " ", "a", "d", "d",
      " ", " ", " ", " ", " ", " ", " ", " ", " ", " ", " ", "/",
      "/", " ", "[", "c", "o", "u", "n", "t", " ", "+", " ", "1",
      "]", "\n",
      " ", " ", " ", " ", "[", "C", "O", "U", "N", "T", "E", "R",
      "]", " ", "s", "s", "t", "o", "r", "e", " ", " ", " ", "/",
      "/", " ", "[", "]", "\n",
      "}", "\n",
      "\n",
      "#", "d", "e", "f", "i", "n", "e", " ", "m", "a", "c", "r",
      "o", " ", "G", "E", "T", "_", "C", "O", "U", "N", "T", "(",
      ")", " ", "=", " ", "t", "a", "k", "e", "s", "(", "0", ")",
      " ", "r", "e", "t", "u", "r", "n", "s", "(", "1", ")", " ",
      "{", "\n",
      " ", " ", " ", " ", "[", "C", "O", "U", "N", "T", "E", "R",
      "]", " ", "s", "l", "o", "a", "d", " ", " ", " ", " ", "/",
      "/", " ", "[", "c", "o", "u", "n", "t", "]", "\n",
      "}", "\n",
      "\n",
      "#", "d", "e", "f", "i", "n", "e", " ", "m", "a", "c", "r",
      "o", " ", "M", "A", "I", "N", "(", ")", " ", "=", " ", "t",
      "a", "k", "e", "s", "(", "0", ")", " ", "r", "e", "t", "u",
      "r", "n", "s", "(", "0", ")", " ", "{", "\n",
      " ", " ", " ", " ", "0", "x", "0", "0", " ", "c", "a", "l",
      "l", "d", "a", "t", "a", "l", "o", "a", "d", " ", "0", "x",
      "e", "0", " ", "s", "h", "r", "\n",
      " ", " ", " ", " ", "\n",
      " ", " ", " ", " ", "d", "u", "p", "1", " ", "_", "_", "F",
      "U", "N", "C", "_", "S", "I", "G", "(", "i", "n", "c", "r",
      "e", "m", "e", "n", "t", ")", " ", "e", "q", " ", "i", "n",
      "c", "r", "e", "m", "e", "n", "t", " ", "j", "u", "m", "p",
      "i", "\n",
      " ", " ", " ", " ", "d", "u", "p", "1", " ", "_", "_", "F",
      "U", "N", "C", "_", "S", "I", "G", "(", "g", "e", "t", "C",
      "o", "u", "n", "t", ")", " ", "e", "q", " ", "g", "e", "t",
      "_", "c", "o", "u", "n", "t", " ", "j", "u", "m", "p", "i",
      "\n",
      " ", " ", " ", " ", "\n",
      " ", " ", " ", " ", "0", "x", "0", "0", " ", "0", "x", "0",
      "0", " ", "r", "e", "v", "e", "r", "t", "\n",
      " ", " ", " ", " ", "\n",
      " ", " ", " ", " ", "i", "n", "c", "r", "e", "m", "e", "n",
      "t", ":", "\n",
      " ", " ", " ", " ", " ", " ", " ", " ", "I", "N", "C", "R",
      "E", "M", "E", "N", "T", "(", ")", "\n",
      " ", " ", " ", " ", " ", " ", " ", " ", "s", "t", "o", "p",
      "\n",
      " ", " ", " ", " ", " ", " ", " ", " ", "\n",
      " ", " ", " ", " ", "g", "e", "t", "_", "c", "o", "u", "n",
      "t", ":", "\n",
      " ", " ", " ", " ", " ", " ", " ", " ", "G", "E", "T", "_",
      "C", "O", "U", "N", "T", "(", ")", "\n",
      " ", " ", " ", " ", " ", " ", " ", " ", "0", "x", "0", "0",
      " ", "m", "s", "t", "o", "r", "e", "\n",
      " ", " ", " ", " ", " ", " ", " ", " ", "0", "x", "2", "0",
      " ", "0", "x", "0", "0", " ", "r", "e", "t", "u", "r", "n",
      "\n",
      "}">>
MacroArgsSource ==
    <<"/", "/", " ", "F", "i", "r", "s", "t", "-", "c", "l", "a",
      "s", "s", " ", "m", "a", "c", "r", "o", " ", "a", "r", "g",
      "u", "m", "e", "n", "t", "s", " ", "e", "x", "a", "m", "p",
      "l", "e", " ", "(", "v", "1", ".", "3", ".", "0", ")", "\n",
      "#", "d", "e", "f", "i", "n", "e", " ", "m", "a", "c", "r",
      "o", " ", "A", "D", "D", "(", ")", " ", "=", " ", "t", "a",
      "k", "e", "s", "(", "2", ")", " ", "r", "e", "t", "u", "r",
      "n", "s", "(", "1", ")", " ", "{", "\n",
      " ", " ", " ", " ", "a", "d", "d", "\n",
      "}", "\n",
      "\n",
      "#", "d", "e", "f", "i", "n", "e", " ", "m", "a", "c", "r",
      "o", " ", "M", "U", "L", "(", ")", " ", "=", " ", "t", "a",
      "k", "e", "s", "(", "2", ")", " ", "r", "e", "t", "u", "r",
      "n", "s", "(", "1", ")", " ", "{", "\n",
      " ", " ", " ", " ", "m", "u", "l", "\n",
      "}", "\n",
      "\n",
      "/", "/", " ", "P", "a", "s", "s", " ", "m", "a", "c", "r",
      "o", " ", "a", "s", " ", "a", "r", "g", "u", "m", "e", "n",
      "t", "\n",
      "#", "d", "e", "f", "i", "n", "e", " ", "m", "a", "c", "r",
      "o", " ", "A", "P", "P", "L", "Y", "_", "O", "P", "(", "o",
      "p", ")", " ", "=", " ", "t", "a", "k", "e", "s", "(", "0",
      ")", " ", "r", "e", "t", "u", "r", "n", "s", "(", "1", ")",
      " ", "{", "\n",
      " ", " ", " ", " ", "0", "x", "1", "0", "\n",
      " ", " ", " ", " ", "0", "x", "2", "0", "\n",
      " ", " ", " ", " ", "<", "o", "p", ">", "(", ")", " ", " ",
      "/", "/", " ", "I", "n", "v", "o", "k", "e", " ", "t", "h",
      "e", " ", "m", "a", "c", "r", "o", " ", "p", "a", "s", "s",
      "e", "d", " ", "a", "s", " ", "a", "r", "g", "u", "m", "e",
      "n", "t", "\n",
      "}", "\n",
      "\n",
      "#", "d", "e", "f", "i", "n", "e", " ", "m", "a", "c", "r",
      "o", " ", "M", "A", "I", "N", "(", ")", " ", "=", " ", "t",
      "a", "k", "e", "s", "(", "0", ")", " ", "r", "e", "t", "u",
      "r", "n", "s", "(", "0", ")", " ", "{", "\n",
      " ", " ", " ", " ", "A", "P", "P", "L", "Y", "_", "O", "P",
      "(", "A", "D", "D", ")", " ", " ", "/", "/", " ", "R", "e",
      "s", "u", "l", "t", "s", " ", "i", "n", ":", " ", "0", "x",
      "1", "0", " ", "+", " ", "0", "x", "2", "0", " ", "=", " ",
      "0", "x", "3", "0", "\n",
      " ", " ", " ", " ", "0", "x", "0", "0", " ", "m", "s", "t",
      "o", "r", "e", "\n",
      " ", " ", " ", " ", "0", "x", "2", "0", " ", "0", "x", "0",
      "0", " ", "r", "e", "t", "u", "r", "n", "\n",
      "}">>

\* initialFiles: file 1, folder 2 (open) holding files 3 and 4.  A folder
\* has no content; its content field is never read.
initialFiles ==
    [id \in {"1", "2", "3", "4"} |->
        CASE id = "1" -> [name |-> "SimpleStore.huff", type |-> "file",
                          content |-> SimpleStoreSource, parent |-> None,
                          isOpen |-> FALSE]
          [] id = "2" -> [name |-> "examples", type |-> "folder",
                          content |-> <<>>, parent |-> None, isOpen |-> TRUE]
          [] id = "3" -> [name |-> "Counter.huff", type |-> "file",
                          content |-> CounterSource, parent |-> Some("2"),
                          isOpen |-> FALSE]
          [] id = "4" -> [name |-> "MacroArgs.huff", type |-> "file",
                          content |-> MacroArgsSource, parent |-> Some("2"),
                          isOpen |-> FALSE]]

\* findFileById(nodes, id): the node, or null.
FindFileById(nodes, id) ==
    IF id \in DOMAIN nodes THEN Some(nodes[id]) ELSE None

\* updateFileContent(nodes, id, content)
UpdateFileContent(nodes, id, content) ==
    [n \in DOMAIN nodes |->
        IF n = id THEN [nodes[n] EXCEPT !.content = content] ELSE nodes[n]]

\* The characters String.prototype.trim removes: the white space characters
\* (tab, vertical tab, form feed, space, no-break space, byte order mark and
\* the other space separators) and the line terminators (line feed,
\* carriage return, line and paragraph separator).
WhiteSpace ==
    {"\t", "\n", "U+000B", "\f", "\r", " ", "U+00A0", "U+1680",
     "U+2000", "U+2001", "U+2002", "U+2003", "U+2004", "U+2005", "U+2006",
     "U+2007", "U+2008", "U+2009", "U+200A", "U+2028", "U+2029", "U+202F",
     "U+205F", "U+3000", "U+FEFF"}

\* content.trim() is empty: every character is white space.
IsBlank(content) == \A k \in 1..Len(content) : content[k] \in WhiteSpace

\* FileTree renders a node only under open folders.
RECURSIVE Visible(_, _)
Visible(nodes, id) ==
    LET parent == nodes[id].parent
    IN  IF ~IsSome(parent) THEN TRUE
        ELSE /\ Get(parent) \in DOMAIN nodes
             /\ nodes[Get(parent)].isOpen
             /\ Visible(nodes, Get(parent))

\* What a call of handleCompileContent changes: the compilation state and,
\* through compileResult, the state of BytecodeViewer, which React drops
\* when the viewer is no longer rendered.
compileVars ==
    <<compileResult, appliedSeq, wasmResult, isCompiling, inFlight, lastRequest,
      nextSeq, hoveredSegment>>

\* No call of handleCompileContent is waiting for compile.  compile does its
\* work synchronously (isReady is set when App mounts, wasmCompile is a plain
\* call), so `await huffCompiler.compile(...)` resumes in a microtask of the
\* task that issued the request: no event handler, timer or mount callback
\* runs in between.
Idle == inFlight = {}

\* BytecodeViewer's hoveredSegment once compileResult is `result`: the viewer
\* keeps its state while it stays rendered, and starts from null when it is
\* rendered anew.
HoveredAfter(result) ==
    IF IsSome(result) /\ Get(result).success THEN hoveredSegment ELSE None
hoverVars == <<editorDecorations, decorationsRef, nextDecorationId, revealed>>

\* handleCompileContent(content, fileName) up to its await: a blank content
\* clears compileResult, any other issues a request.  `via` records the
\* caller (history only).
HandleCompileContent(content, fileName, via) ==
    IF IsBlank(content)
    THEN /\ compileResult' = None
         /\ appliedSeq' = 0
         /\ wasmResult' = None
         /\ hoveredSegment' = HoveredAfter(None)
         /\ UNCHANGED <<isCompiling, inFlight, lastRequest, nextSeq>>
    ELSE /\ nextSeq <= MaxRequests
         /\ isCompiling' = TRUE
         /\ inFlight' = inFlight \cup {nextSeq}
         /\ lastRequest' = Some([content |-> content, fileName |-> fileName,
                                 via |-> via])
         /\ nextSeq' = nextSeq + 1
         /\ UNCHANGED <<compileResult, appliedSeq, wasmResult, hoveredSegment>>

\* The timer the debounce effect starts for the state (auto, content,
\* selected, nodes), as a set: empty when the effect returns early.
DebounceTimer(auto, content, selected, nodes) ==
    IF ~auto \/ content = <<>> \/ ~IsSome(selected) THEN {}
    ELSE LET file == FindFileById(nodes, Get(selected))
         IN  IF ~IsSome(file) \/ Get(file).type # "file" THEN {}
             ELSE {[content |-> content, fileName |-> Get(file).name]}

\* Mutant: the effect has no cleanup, the previous timer keeps running.
DebounceEffect_NoCleanup(auto, content, selected, nodes) ==
    IF content # currentContent \/ auto # autoCompile
    THEN timers \cup DebounceTimer(auto, content, selected, nodes)
    ELSE timers

\* useEffect(..., [currentContent, autoCompile]): when a dependency changed,
\* the cleanup of the previous run clears its timer and the effect runs again.
DebounceEffect(auto, content, selected, nodes) ==
    IF content # currentContent \/ auto # autoCompile
    THEN DebounceTimer(auto, content, selected, nodes)
    ELSE timers

\* The node id is `ancestor` or lies under it.
RECURSIVE IsUnder(_, _, _)
IsUnder(nodes, id, ancestor) ==
    IF id = ancestor THEN TRUE
    ELSE IF ~IsSome(nodes[id].parent) THEN FALSE
    ELSE IsUnder(nodes, Get(nodes[id].parent), ancestor)

\* The state of one render as a callback of that render captures it: the
\* tree is the files array of that render, every folder object of which is
\* an object of the current tree.
Render(nodes, selected, content) ==
    Some([files |-> nodes, selectedFile |-> selected, currentContent |-> content,
          shared |-> {n \in DOMAIN nodes : nodes[n].type = "folder"}])

\* updateFileContent, addNodeToParent, renameNode and toggleFolder, called
\* for the node id: the node is copied with its children array as it is,
\* and every other folder they visit is copied with a new children array.
\* The folders below the node are not visited: of the folder objects a
\* captured tree shares with the current tree `nodes`, those stay shared.
Copied(closure, nodes, id) ==
    IF IsSome(closure)
    THEN Some([Get(closure) EXCEPT
                  !.shared = {n \in @ : /\ n \in DOMAIN nodes
                                        /\ n # id
                                        /\ IsUnder(nodes, n, id)}])
    ELSE None

\* The state after the first render and its effects: file 1 is loaded and,
\* auto mode being on, compiled at once; the debounce timer runs.
Init ==
    /\ files = initialFiles
    /\ selectedFile = Some("1")
    /\ currentContent = SimpleStoreSource
    /\ compileResult = None
    /\ isCompiling = TRUE
    /\ editorInstance = None
    /\ showRuntime = TRUE
    /\ autoCompile = TRUE
    /\ decorationsRef = <<>>
    /\ timers = {[content |-> SimpleStoreSource, fileName |-> "SimpleStore.huff"]}
    /\ inFlight = {1}
    /\ lastRequest = Some([content |-> SimpleStoreSource,
                           fileName |-> "SimpleStore.huff", via |-> "load"])
    /\ nextSeq = 2
    /\ appliedSeq = 0
    /\ wasmResult = None
    /\ editorDecorations = {}
    /\ nextDecorationId = 1
    /\ revealed = None
    /\ commandClosure = None
    /\ mountRender = Render(initialFiles, Some("1"), <<>>)
    /\ hoveredSegment = None
    /\ parse = [bytes |-> <<>>, i |-> 0, result |-> <<>>]
    /\ clock = 0
    /\ saves = 0
    /\ burst = 0

\* handleFileSelect(file) for a file node, with the effects of the
\* selectedFile change: the load effect, then the debounce effect.
HandleFileSelectTask(id) ==
    /\ id \in DOMAIN files
    /\ files[id].type = "file"
    /\ Visible(files, id)
    /\ LET saved == IF IsSome(selectedFile)
                    THEN UpdateFileContent(files, Get(selectedFile), currentContent)
                    ELSE files
       IN  /\ files' = saved
           /\ selectedFile' = Some(id)
           /\ IF Some(id) # selectedFile
              THEN /\ currentContent' = saved[id].content
                   /\ IF autoCompile /\ saved[id].content # <<>>
                      THEN HandleCompileContent(saved[id].content, saved[id].name, "load")
                      ELSE UNCHANGED compileVars
                   /\ timers' = DebounceEffect(autoCompile, saved[id].content,
                                               Some(id), saved)
              ELSE UNCHANGED <<currentContent, compileVars, timers>>
    /\ commandClosure' = IF IsSome(selectedFile)
                        THEN Copied(commandClosure, files, Get(selectedFile))
                        ELSE commandClosure
    /\ mountRender' = IF IsSome(selectedFile)
                     THEN Copied(mountRender, files, Get(selectedFile))
                     ELSE Render(files, Some(id), currentContent)
    /\ burst' = IF Some(id) # selectedFile THEN 0 ELSE burst
    /\ UNCHANGED <<clock, saves, editorInstance, showRuntime, autoCompile,
                   hoverVars, parse>>

\* HandleFileSelectTask as a task of the event loop: with the compiler of this
\* repository no request is pending when a task starts.
HandleFileSelect(id) ==
    Idle /\ HandleFileSelectTask(id)

\* The content handleFileCreate gives a new file ('// New Huff file\n').
NewFileSource ==
    <<"/", "/", " ", "N", "e", "w", " ",
      "H", "u", "f", "f", " ", "f", "i", "l", "e", "\n">>

\* name.endsWith('.huff')
EndsWithHuff(name) == Len(name) >= 5 /\ SubSeq(name, Len(name) - 4, Len(name)) = ".huff"

\* Date.now().toString() at the call number `time` of handleFileCreate: two
\* calls never fall in the same millisecond, and no such id is an id of
\* initialFiles.
NowId(time) == "t" \o ToString(time)

\* addNodeToParent(nodes, parentId, newNode): the node is added under the
\* folder parentId, which is opened; without such a folder nothing is added.
AddNodeToParent(nodes, parentId, id, newNode) ==
    IF parentId \in DOMAIN nodes /\ nodes[parentId].type = "folder"
    THEN [n \in DOMAIN nodes \cup {id} |->
             IF n = id THEN [newNode EXCEPT !.parent = Some(parentId)]
             ELSE IF n = parentId THEN [nodes[n] EXCEPT !.isOpen = TRUE]
             ELSE nodes[n]]
    ELSE nodes

\* handleFileCreate(parentId, name, type); parentId is null (the header
\* buttons) or the folder of the context menu.
HandleFileCreate(parentId, name, type) ==
    /\ Idle
    /\ clock < MaxCreated
    /\ clock' = clock + 1
    /\ IsSome(parentId) =>
           /\ Get(parentId) \in DOMAIN files
           /\ files[Get(parentId)].type = "folder"
           /\ Visible(files, Get(parentId))
    /\ LET id == NowId(clock + 1)
           newNode == [name    |-> IF EndsWithHuff(name) \/ type = "folder"
                                   THEN name ELSE name \o ".huff",
                       type    |-> type,
                       content |-> IF type = "file" THEN NewFileSource ELSE <<>>,
                       parent  |-> None,
                       isOpen  |-> type = "folder"]
       IN  files' = IF IsSome(parentId)
                    THEN AddNodeToParent(files, Get(parentId), id, newNode)
                    ELSE [n \in DOMAIN files \cup {id} |->
                             IF n = id THEN newNode ELSE files[n]]
    /\ commandClosure' = IF IsSome(parentId)
                        THEN Copied(commandClosure, files, Get(parentId))
                        ELSE commandClosure
    /\ mountRender' = IF IsSome(parentId)
                     THEN Copied(mountRender, files, Get(parentId))
                     ELSE mountRender
    /\ UNCHANGED <<saves, burst, selectedFile, currentContent, compileVars,
                   editorInstance, showRuntime, autoCompile, timers,
                   hoverVars, parse>>

\* deleteNode(nodes, id): the node goes, with everything under it.
DeleteNode(nodes, id) ==
    [n \in {m \in DOMAIN nodes : ~IsUnder(nodes, m, id)} |-> nodes[n]]

\* deleteNode assigns node.children of the folder objects it visits: a node
\* deleted from under a folder whose object a captured tree shares with the
\* current tree `nodes` leaves the captured tree too, with all that is under
\* it.  The top-level array of a captured tree is its own.
DeleteFromCaptured(closure, nodes, fileId) ==
    IF IsSome(closure)
    THEN LET parent == nodes[fileId].parent
             gone == {n \in DOMAIN nodes : IsUnder(nodes, n, fileId)}
         IN  Some([Get(closure) EXCEPT
                      !.files = IF /\ IsSome(parent)
                                   /\ Get(parent) \in Get(closure).shared
                                   /\ fileId \in DOMAIN @
                                THEN DeleteNode(@, fileId) ELSE @,
                      !.shared = @ \ gone])
    ELSE None

\* handleFileDelete(fileId), from the context menu of a rendered node, with
\* the effects of the selectedFile and currentContent changes.  Without a
\* selected file MonacoEditor is no longer rendered: its commands go with
\* it, while editorInstance keeps the old editor.
HandleFileDelete(fileId) ==
    /\ Idle
    /\ fileId \in DOMAIN files
    /\ Visible(files, fileId)
    /\ files' = DeleteNode(files, fileId)
    /\ IF selectedFile = Some(fileId)
       THEN /\ selectedFile' = None
            /\ currentContent' = <<>>
            /\ timers' = DebounceEffect(autoCompile, <<>>, None, files')
            /\ commandClosure' = None
            /\ mountRender' = None
       ELSE /\ UNCHANGED <<selectedFile, currentContent, timers>>
            /\ commandClosure' = DeleteFromCaptured(commandClosure, files, fileId)
            /\ mountRender' = DeleteFromCaptured(mountRender, files, fileId)
    /\ burst' = IF selectedFile = Some(fileId) THEN 0 ELSE burst
    /\ UNCHANGED <<clock, saves, compileVars, editorInstance, showRuntime,
                   autoCompile, hoverVars, parse>>

\* handleFileRename(fileId, newName), from the context menu of a rendered node.
HandleFileRename(fileId, newName) ==
    /\ Idle
    /\ fileId \in DOMAIN files
    /\ Visible(files, fileId)
    /\ files' = [files EXCEPT ![fileId].name = newName]
    /\ commandClosure' = Copied(commandClosure, files, fileId)
    /\ mountRender' = Copied(mountRender, files, fileId)
    /\ UNCHANGED <<clock, saves, burst, selectedFile, currentContent, compileVars,
                   editorInstance, showRuntime, autoCompile, timers,
                   hoverVars, parse>>

\* handleToggleFolder(folderId): a click on a rendered folder.
HandleToggleFolder(folderId) ==
    /\ Idle
    /\ folderId \in DOMAIN files
    /\ files[folderId].type = "folder"
    /\ Visible(files, folderId)
    /\ files' = [files EXCEPT ![folderId].isOpen = ~@]
    /\ commandClosure' = Copied(commandClosure, files, folderId)
    /\ mountRender' = Copied(mountRender, files, folderId)
    /\ UNCHANGED <<clock, saves, burst, selectedFile, currentContent, compileVars,
                   editorInstance, showRuntime, autoCompile, timers,
                   hoverVars, parse>>

\* handleContentChange(value), the editor's onChange, with the debounce effect.
HandleContentChangeTask(value) ==
    /\ IsSome(commandClosure)
    /\ IsSome(selectedFile)
    /\ value # currentContent
    /\ currentContent' = value
    /\ timers' = DebounceEffect(autoCompile, value, selectedFile, files)
    /\ burst' = IF burst = 0 \/ timers = {} THEN 1 ELSE 2
    /\ UNCHANGED <<clock, saves, files, selectedFile, compileVars,
                   editorInstance, showRuntime, autoCompile, hoverVars,
                   commandClosure, mountRender, parse>>

\* HandleContentChangeTask as a task of the event loop: with the compiler of this
\* repository no request is pending when a task starts.
HandleContentChange(value) ==
    Idle /\ HandleContentChangeTask(value)

\* Mutant: autoCompile is no dependency of the debounce effect.
ToggleAutoCompile_NoEffect ==
    /\ Idle
    /\ autoCompile' = ~autoCompile
    /\ UNCHANGED <<clock, saves, burst, files, selectedFile, currentContent,
                   compileVars, editorInstance, showRuntime, hoverVars,
                   commandClosure, mountRender, parse, timers>>

\* The Auto button: setAutoCompile(!autoCompile), with the debounce effect.
ToggleAutoCompileTask ==
    /\ autoCompile' = ~autoCompile
    /\ timers' = DebounceEffect(~autoCompile, currentContent, selectedFile, files)
    /\ burst' = 0
    /\ UNCHANGED <<clock, saves, files, selectedFile, currentContent,
                   compileVars, editorInstance, showRuntime, hoverVars,
                   commandClosure, mountRender, parse>>

\* ToggleAutoCompileTask as a task of the event loop: with the compiler of this
\* repository no request is pending when a task starts.
ToggleAutoCompile ==
    Idle /\ ToggleAutoCompileTask

\* The debounce timer fires: handleCompileContent(currentContent, file.name)
\* with the values the effect captured.
TimerFireTask ==
    \E t \in timers :
        /\ timers' = timers \ {t}
        /\ HandleCompileContent(t.content, t.fileName, "timer")
        /\ UNCHANGED <<clock, saves, burst, files, selectedFile, currentContent,
                       editorInstance, showRuntime, autoCompile, hoverVars,
                       commandClosure, mountRender, parse>>

\* TimerFireTask as a task of the event loop: with the compiler of this
\* repository no request is pending when a task starts.
TimerFire ==
    Idle /\ TimerFireTask

\* handleCompile() over the state (nodes, selected, content) its closure sees.
HandleCompileOf(nodes, selected, content) ==
    LET file == IF IsSome(selected) THEN FindFileById(nodes, Get(selected)) ELSE None
        fileName == IF IsSome(file) THEN Get(file).name ELSE "main.huff"
    IN  HandleCompileContent(content, fileName, "manual")

\* The Compile button: rendered in manual mode, disabled while compiling or
\* without a selected file.
HandleCompileTask ==
    /\ ~autoCompile
    /\ ~isCompiling
    /\ IsSome(selectedFile)
    /\ HandleCompileOf(files, selectedFile, currentContent)
    /\ UNCHANGED <<clock, saves, burst, files, selectedFile, currentContent,
                   editorInstance, showRuntime, autoCompile, timers,
                   hoverVars, commandClosure, mountRender, parse>>

\* HandleCompileTask as a task of the event loop: with the compiler of this
\* repository no request is pending when a task starts.
HandleCompile ==
    Idle /\ HandleCompileTask

\* Cmd/Ctrl+Enter: the command registered by handleEditorDidMount calls the
\* handleCompile of the render commandClosure holds.
CompileCommandTask ==
    /\ IsSome(commandClosure)
    /\ IsSome(selectedFile)
    /\ HandleCompileOf(Get(commandClosure).files, Get(commandClosure).selectedFile,
                       Get(commandClosure).currentContent)
    /\ UNCHANGED <<clock, saves, burst, files, selectedFile, currentContent,
                   editorInstance, showRuntime, autoCompile, timers,
                   hoverVars, commandClosure, mountRender, parse>>

\* CompileCommandTask as a task of the event loop: with the compiler of this
\* repository no request is pending when a task starts.
CompileCommand ==
    Idle /\ CompileCommandTask

\* Cmd/Ctrl+S in the editor: the command registered by handleEditorDidMount
\* runs with the selectedFile and currentContent of the render
\* commandClosure holds; setFiles(prev => ...) updates the current tree.
\* files is no dependency of an effect.
SaveCommand ==
    /\ Idle
    /\ IsSome(commandClosure)
    /\ IsSome(selectedFile)
    /\ files' = IF IsSome(Get(commandClosure).selectedFile)
                THEN UpdateFileContent(files, Get(Get(commandClosure).selectedFile),
                                       Get(commandClosure).currentContent)
                ELSE files
    /\ saves' = 1 - saves
    /\ commandClosure' = IF IsSome(Get(commandClosure).selectedFile)
                        THEN Copied(commandClosure, files,
                                    Get(Get(commandClosure).selectedFile))
                        ELSE commandClosure
    /\ UNCHANGED mountRender
    /\ UNCHANGED <<clock, burst, selectedFile, currentContent, compileVars,
                   editorInstance, showRuntime, autoCompile, timers,
                   hoverVars, parse>>

\* huffCompiler.compile resolves for request req with `result`:
\* setCompileResult(result), then setIsCompiling(false).
CompleteRequest(req, result) ==
    /\ req \in inFlight
    /\ compileResult' = Some(result)
    /\ appliedSeq' = req
    /\ wasmResult' = None
    /\ isCompiling' = FALSE
    /\ hoveredSegment' = HoveredAfter(Some(result))
    /\ inFlight' = inFlight \ {req}
    /\ UNCHANGED <<clock, saves, burst, files, selectedFile, currentContent,
                   editorInstance, showRuntime, autoCompile, timers,
                   lastRequest, nextSeq, hoverVars, commandClosure, mountRender, parse>>

\* The file name request req was issued with: that of lastRequest for the
\* request issued last, the name of some file for an earlier one.
RequestFileNames(req) ==
    IF req = nextSeq - 1 THEN {Get(lastRequest).fileName}
    ELSE {files[id].name : id \in {n \in DOMAIN files : files[n].type = "file"}}

\* huffCompiler.compile(content, fileName) resolves for request req, its
\* wasmCompile call having returned or thrown `result`.
CompileReturns(req, fileName, result) ==
    /\ req \in inFlight
    /\ fileName \in RequestFileNames(req)
    /\ compileResult' = Some(Compile(fileName, result))
    /\ appliedSeq' = req
    /\ wasmResult' = Some([fileName |-> fileName, result |-> result])
    /\ isCompiling' = FALSE
    /\ hoveredSegment' = HoveredAfter(Some(Compile(fileName, result)))
    /\ inFlight' = inFlight \ {req}
    /\ UNCHANGED <<clock, saves, burst, files, selectedFile, currentContent,
                   editorInstance, showRuntime, autoCompile, timers,
                   lastRequest, nextSeq, hoverVars, commandClosure, mountRender, parse>>

\* huffCompiler.compile rejects for request req (initialize threw): the
\* catch of handleCompileContent.
CompileRejects(req, message) ==
    /\ req \in inFlight
    /\ compileResult' = Some(FailureResult(<<"Compilation failed: " \o message>>))
    /\ appliedSeq' = req
    /\ wasmResult' = None
    /\ isCompiling' = FALSE
    /\ hoveredSegment' = HoveredAfter(Some(FailureResult(<<"Compilation failed: " \o message>>)))
    /\ inFlight' = inFlight \ {req}
    /\ UNCHANGED <<clock, saves, burst, files, selectedFile, currentContent,
                   editorInstance, showRuntime, autoCompile, timers,
                   lastRequest, nextSeq, hoverVars, commandClosure, mountRender, parse>>

\* handleEditorDidMount(editor, monaco): onMount of the MonacoEditor that is
\* rendered while a file is selected and has not mounted yet (commandClosure
\* is None).  The new editor holds no decoration and has revealed nothing.
\* Its commands capture the state of the render whose handleEditorDidMount
\* the editor component calls: the one it was created with, or the one of
\* the current render (@monaco-editor/react is no part of the source).
HandleEditorDidMountTask ==
    /\ IsSome(selectedFile)
    /\ ~IsSome(commandClosure)
    /\ editorInstance' = Some("editor")
    /\ \E closure \in {mountRender, Render(files, selectedFile, currentContent)} :
           commandClosure' = closure
    /\ mountRender' = None
    /\ editorDecorations' = {}
    /\ revealed' = None
    /\ UNCHANGED <<clock, saves, burst, files, selectedFile, currentContent,
                   compileVars, showRuntime, autoCompile, timers,
                   decorationsRef, nextDecorationId, parse>>

\* HandleEditorDidMountTask as a task of the event loop: with the compiler of this
\* repository no request is pending when a task starts.
HandleEditorDidMount ==
    Idle /\ HandleEditorDidMountTask

\* The Bytecode/Runtime switch, rendered for a successful compileResult.
SetShowRuntime(checked) ==
    /\ Idle
    /\ ViewerRendered
    /\ checked # showRuntime
    /\ showRuntime' = checked
    /\ UNCHANGED <<clock, saves, burst, files, selectedFile, currentContent,
                   compileVars, editorInstance, autoCompile, timers,
                   hoverVars, commandClosure, mountRender, parse>>

---------------------------------------------------------------------------
(* The editor highlight: handleSegmentHover and handleBytecodeHover.       *)

\* editor.getModel().getPositionAt(offset): the offset is clamped to the
\* text, lines and columns count from 1.
GetPositionAt(text, offset) ==
    LET clamped == Max(0, Min(offset, Len(text)))
        breaks == {k \in 1..clamped : text[k] = "\n"}
        lineStart == IF breaks = {} THEN 0
                     ELSE CHOOSE k \in breaks : \A j \in breaks : j <= k
    IN  [lineNumber |-> 1 + Cardinality(breaks), column |-> clamped - lineStart + 1]

\* The range of the decoration handleBytecodeHover adds.
DecorationRange(text, sourceStart, sourceEnd) ==
    LET startPos == GetPositionAt(text, sourceStart)
        endPos == GetPositionAt(text, sourceEnd)
    IN  [startLineNumber |-> startPos.lineNumber, startColumn |-> startPos.column,
         endLineNumber |-> endPos.lineNumber, endColumn |-> endPos.column]

\* editor.deltaDecorations(oldHandles, []) on the decorations `held`.
RemoveDecorations(held, oldHandles) ==
    {d \in held : \A k \in 1..Len(oldHandles) : oldHandles[k] # d.id}

\* editorInstance.getModel() is not null: the editor held by editorInstance
\* is still mounted.  Once its <MonacoEditor> is unmounted the editor is
\* disposed: getModel() is null and deltaDecorations changes nothing.
HasModel == IsSome(commandClosure)

\* Mutant: the previous decorations are not cleared.
HandleBytecodeHover_NoClear(sourceStart, sourceEnd) ==
    IF ~IsSome(editorInstance) \/ ~HasModel THEN UNCHANGED hoverVars
    ELSE IF IsSome(sourceStart) /\ IsSome(sourceEnd)
         THEN /\ nextDecorationId <= MaxDecorations
              /\ editorDecorations' = editorDecorations \cup
                     {[id |-> nextDecorationId,
                       range |-> DecorationRange(currentContent, Get(sourceStart),
                                                 Get(sourceEnd))]}
              /\ decorationsRef' = <<nextDecorationId>>
              /\ nextDecorationId' = nextDecorationId + 1
              /\ revealed' = Some(GetPositionAt(currentContent, Get(sourceStart)))
         ELSE UNCHANGED hoverVars

\* handleBytecodeHover(sourceStart, sourceEnd); both arguments are null or a
\* number.  The editor's model is the text shown, currentContent.  On a
\* disposed editor only decorationsRef is reset: deltaDecorations changes
\* nothing, and the handler returns at `if (!model) return`.
HandleBytecodeHover(sourceStart, sourceEnd) ==
    IF ~IsSome(editorInstance) THEN UNCHANGED hoverVars
    ELSE IF ~HasModel
    THEN /\ decorationsRef' = <<>>
         /\ UNCHANGED <<editorDecorations, nextDecorationId, revealed>>
    ELSE LET cleared == IF Len(decorationsRef) > 0
                        THEN RemoveDecorations(editorDecorations, decorationsRef)
                        ELSE editorDecorations
         IN  IF IsSome(sourceStart) /\ IsSome(sourceEnd)
             THEN /\ nextDecorationId <= MaxDecorations
                  /\ editorDecorations' = cleared \cup
                         {[id |-> nextDecorationId,
                           range |-> DecorationRange(currentContent, Get(sourceStart),
                                                     Get(sourceEnd))]}
                  /\ decorationsRef' = <<nextDecorationId>>
                  /\ nextDecorationId' = nextDecorationId + 1
                  /\ revealed' = Some(GetPositionAt(currentContent, Get(sourceStart)))
             ELSE /\ editorDecorations' = cleared
                  /\ decorationsRef' = <<>>
                  /\ UNCHANGED <<nextDecorationId, revealed>>

\* Mutant: onHover is called for mapped segments only.
HandleSegmentHover_MappedOnly(segment) ==
    /\ Idle
    /\ ViewerRendered
    /\ IsSome(segment) => \E k \in 1..Len(segments) : segments[k] = Get(segment)
    /\ hoveredSegment' = segment
    /\ IF IsSome(segment) /\ IsSome(Get(segment).sourceStart)
                          /\ IsSome(Get(segment).sourceEnd)
       THEN HandleBytecodeHover(Get(segment).sourceStart, Get(segment).sourceEnd)
       ELSE UNCHANGED hoverVars
    /\ UNCHANGED <<clock, saves, burst, files, selectedFile, currentContent,
                   compileResult, appliedSeq, wasmResult, isCompiling,
                   inFlight, lastRequest, nextSeq, editorInstance,
                   showRuntime, autoCompile, timers, commandClosure, mountRender, parse>>

\* BytecodeViewer handleSegmentHover(segment): onMouseEnter of a segment
\* shown, or onMouseLeave (null).
HandleSegmentHover(segment) ==
    /\ Idle
    /\ ViewerRendered
    /\ IsSome(segment) => \E k \in 1..Len(segments) : segments[k] = Get(segment)
    /\ hoveredSegment' = segment
    /\ IF IsSome(segment) /\ IsSome(Get(segment).sourceStart)
                          /\ IsSome(Get(segment).sourceEnd)
       THEN HandleBytecodeHover(Get(segment).sourceStart, Get(segment).sourceEnd)
       ELSE HandleBytecodeHover(None, None)
    /\ UNCHANGED <<clock, saves, burst, files, selectedFile, currentContent,
                   compileResult, appliedSeq, wasmResult, isCompiling,
                   inFlight, lastRequest, nextSeq, editorInstance,
                   showRuntime, autoCompile, timers, commandClosure, mountRender, parse>>

---------------------------------------------------------------------------
(* BytecodeViewer: parseOpcodes.                                           *)

NaN == -1
PUSH1 == 96      \* 0x60
PUSH32 == 127    \* 0x7f

\* The value of a hexadecimal digit; NaN for any other character.
HexDigit(c) ==
    CASE c = "0" -> 0 [] c = "1" -> 1 [] c = "2" -> 2 [] c = "3" -> 3
      [] c = "4" -> 4 [] c = "5" -> 5 [] c = "6" -> 6 [] c = "7" -> 7
      [] c = "8" -> 8 [] c = "9" -> 9
      [] c \in {"a", "A"} -> 10 [] c \in {"b", "B"} -> 11
      [] c \in {"c", "C"} -> 12 [] c \in {"d", "D"} -> 13
      [] c \in {"e", "E"} -> 14 [] c \in {"f", "F"} -> 15
      [] OTHER -> NaN

RECURSIVE ParseDigits(_, _, _)
ParseDigits(s, k, acc) ==
    IF k > Len(s) \/ HexDigit(s[k]) = NaN THEN acc
    ELSE ParseDigits(s, k + 1, acc * 16 + HexDigit(s[k]))

\* parseInt(s, 16) of a string without sign or white space: an optional 0x,
\* then the longest run of hexadecimal digits; NaN when there is none.
ParseInt16(s) ==
    LET digits == IF Len(s) >= 2 /\ s[1] = "0" /\ s[2] \in {"x", "X"}
                  THEN SliceFrom(s, 2) ELSE s
    IN  IF digits = <<>> \/ HexDigit(digits[1]) = NaN THEN NaN
        ELSE ParseDigits(digits, 1, 0)

Span(key, className, text) == [key |-> key, className |-> className, text |-> text]

\* Mutant: the cursor is not moved past the immediate data.
ParseOpcodesIteration_RescanData(p) ==
    LET opcode == Slice(p.bytes, p.i, p.i + 2)
        opcodeValue == ParseInt16(opcode)
    IN  IF opcodeValue >= PUSH1 /\ opcodeValue <= PUSH32
        THEN LET dataLength == (opcodeValue - PUSH1 + 1) * 2
                 at == p.i + 2
                 data == Slice(p.bytes, at, Min(at + dataLength, Len(p.bytes)))
                 pushed == Append(p.result, Span(p.i, "opcode-push", opcode))
             IN  IF at < Len(p.bytes)
                 THEN [bytes |-> p.bytes, i |-> at,
                       result |-> Append(pushed, Span(at, "opcode-push-data", data))]
                 ELSE [bytes |-> p.bytes, i |-> at, result |-> pushed]
        ELSE [bytes |-> p.bytes, i |-> p.i + 2,
              result |-> Append(p.result, Span(p.i, "opcode", opcode))]

\* Mutant: pushSize is one byte short.
ParseOpcodesIteration_ShortPush(p) ==
    LET opcode == Slice(p.bytes, p.i, p.i + 2)
        opcodeValue == ParseInt16(opcode)
    IN  IF opcodeValue >= PUSH1 /\ opcodeValue <= PUSH32
        THEN LET dataLength == (opcodeValue - PUSH1) * 2
                 at == p.i + 2
                 data == Slice(p.bytes, at, Min(at + dataLength, Len(p.bytes)))
                 pushed == Append(p.result, Span(p.i, "opcode-push", opcode))
             IN  IF at < Len(p.bytes) /\ dataLength > 0
                 THEN [bytes |-> p.bytes, i |-> at + Len(data),
                       result |-> Append(pushed, Span(at, "opcode-push-data", data))]
                 ELSE [bytes |-> p.bytes, i |-> at, result |-> pushed]
        ELSE [bytes |-> p.bytes, i |-> p.i + 2,
              result |-> Append(p.result, Span(p.i, "opcode", opcode))]

\* One iteration of `while (i < bytes.length)` on the locals p.
ParseOpcodesIteration(p) ==
    LET opcode == Slice(p.bytes, p.i, p.i + 2)
        opcodeValue == ParseInt16(opcode)
    IN  IF opcodeValue >= PUSH1 /\ opcodeValue <= PUSH32
        THEN LET pushSize == opcodeValue - PUSH1 + 1
                 dataLength == pushSize * 2
                 at == p.i + 2
                 data == Slice(p.bytes, at, Min(at + dataLength, Len(p.bytes)))
                 pushed == Append(p.result, Span(p.i, "opcode-push", opcode))
             IN  IF at < Len(p.bytes)
                 THEN [bytes |-> p.bytes, i |-> at + Len(data),
                       result |-> Append(pushed, Span(at, "opcode-push-data", data))]
                 ELSE [bytes |-> p.bytes, i |-> at, result |-> pushed]
        ELSE [bytes |-> p.bytes, i |-> p.i + 2,
              result |-> Append(p.result, Span(p.i, "opcode", opcode))]

\* The render calls parseOpcodes(segment.bytes) for the k-th segment.
ParseOpcodesCall(k) ==
    /\ ViewerRendered
    /\ k \in 1..Len(segments)
    /\ parse' = [bytes |-> segments[k].bytes, i |-> 0, result |-> <<>>]
    /\ UNCHANGED <<clock, saves, burst, files, selectedFile, currentContent,
                   compileVars, editorInstance, showRuntime, autoCompile,
                   timers, hoverVars, commandClosure, mountRender>>

\* The loop of parseOpcodes runs one iteration.
ParseOpcodesStep ==
    /\ parse.i < Len(parse.bytes)
    /\ parse' = ParseOpcodesIteration(parse)
    /\ UNCHANGED <<clock, saves, burst, files, selectedFile, currentContent,
                   compileVars, editorInstance, showRuntime, autoCompile,
                   timers, hoverVars, commandClosure, mountRender>>

\* parseOpcodes has returned parse.result.
ParseDone == parse.i >= Len(parse.bytes)

---------------------------------------------------------------------------
(* The specifications.                                                     *)

\* The texts typed in the editor, and the results a compilation ends with.
EditTexts == {<<>>, <<" ">>, SimpleStoreSource}
SchedulerResults ==
    {SuccessResult(<<"6", "0", "0", "1">>, <<"0", "1">>, None, None),
     FailureResult(<<"syntax error">>)}

Next ==
    \/ \E id \in DOMAIN files : HandleFileSelect(id)
    \/ \E value \in EditTexts : HandleContentChange(value)
    \/ ToggleAutoCompile
    \/ TimerFire
    \/ HandleCompile
    \/ CompileCommand
    \/ HandleEditorDidMount
    \/ \E req \in inFlight, result \in SchedulerResults : CompleteRequest(req, result)

Spec == Init /\ [][Next]_vars

---------------------------------------------------------------------------
(* SpecSegments: the viewer over the results of a compilation whose        *)
(* bytecode and runtime map are arbitrary within the bounds.               *)

MaxMapLen == 2          \* entries of one source map
MaxPc == 2              \* pc of a compiler map entry, in bytes
MaxEntryBytes == 2      \* bytecode_length of a compiler map entry
MaxBytecodeBytes == 2   \* bytes of a bytecode

RawEntry(pc, bytecode_length, source_start, source_length) ==
    [pc |-> pc, bytecode_length |-> bytecode_length,
     source_start |-> source_start, source_length |-> source_length]

\* The compiler's maps: undefined, or up to MaxMapLen entries in any order.
SegmentRawEntries ==
    {RawEntry(pc, n, pc, n) : pc \in 0..MaxPc, n \in 0..MaxEntryBytes}
SegmentRawMaps ==
    {None} \cup {Some(m) : m \in SeqsUpTo(SegmentRawEntries, MaxMapLen)}

\* Bytecodes: up to MaxBytecodeBytes bytes, with or without the 0x prefix;
\* compile never returns an empty bytecode.
SegmentBytes == {<<"6", "0">>, <<"a", "1">>}
SegmentBytecodes ==
    {prefix \o Concat(body) :
        prefix \in {<<>>, <<"0", "x">>},
        body \in SeqsUpTo(SegmentBytes, MaxBytecodeBytes)} \ {<<>>}

NextSegments ==
    \/ \E req \in inFlight, b \in SegmentBytecodes, m \in SegmentRawMaps :
           CompleteRequest(req, SuccessResult(b, b, None, ConvertMap(m)))
    \/ \E checked \in BOOLEAN : SetShowRuntime(checked)

SpecSegments == Init /\ [][NextSegments]_vars

---------------------------------------------------------------------------
(* SpecStitch: the full-bytecode view over results with a constructor map, *)
(* a runtime map and a constructor of any length.                          *)

StitchRawEntries == {RawEntry(0, 1, 0, 2), RawEntry(2, 1, 3, 1)}
StitchRawMaps ==
    {None} \cup {Some(m) : m \in SeqsUpTo(StitchRawEntries, MaxMapLen)}
StitchRuntimes == {Repeat(<<"0", "0">>, 1), Repeat(<<"0", "0">>, 2)}
StitchBytecodes ==
    {Repeat(<<"0", "0">>, 1), Repeat(<<"0", "0">>, 2), Repeat(<<"0", "0">>, 12)}
StitchResults ==
    {SuccessResult(b, r, ConvertMap(cm), ConvertMap(rm)) :
        b \in StitchBytecodes, r \in StitchRuntimes,
        cm \in StitchRawMaps, rm \in StitchRawMaps}

NextStitch ==
    \/ \E req \in inFlight, result \in StitchResults : CompleteRequest(req, result)
    \/ \E checked \in BOOLEAN : SetShowRuntime(checked)

SpecStitch == Init /\ [][NextStitch]_vars

---------------------------------------------------------------------------
(* SpecTokens: parseOpcodes over the segments of arbitrary bytecodes.      *)

MaxTokenChars == 4      \* characters of a tokenized bytecode

TokenChars == {"0", "1", "6", "7", "f"}
TokenBytecodes ==
    (SeqsUpTo(TokenChars, MaxTokenChars) \ {<<>>})
    \cup {<<"6", "0", "2", "a", "0", "1">>,
          <<"6", "0", "0", "1", "6", "0", "0", "2", "0", "1">>}
TokenRawMaps == {None, Some(<<RawEntry(1, 1, 0, 1)>>)}
TokenResults ==
    {SuccessResult(b, b, None, ConvertMap(m)) :
        b \in TokenBytecodes, m \in TokenRawMaps}

NextTokens ==
    \/ \E req \in inFlight, result \in TokenResults : CompleteRequest(req, result)
    \/ \E k \in 1..Len(segments) : ParseOpcodesCall(k)
    \/ ParseOpcodesStep

SpecTokens == Init /\ [][NextTokens]_vars

\* SpecTokensRun: parseOpcodes is synchronous: a call starts when the
\* previous one has returned, and a loop that can run an iteration does.
\* The bytes are plain instructions and pushes of 1, 2 and 16 bytes.
TokenRunChars == {"0", "1", "6", "f"}
TokenRunBytecodes ==
    (SeqsUpTo(TokenRunChars, MaxTokenChars) \ {<<>>})
    \cup {<<"6", "0", "2", "a", "0", "1">>,
          <<"6", "0", "0", "1", "6", "0", "0", "2", "0", "1">>}
TokenRunResults ==
    {SuccessResult(b, b, None, ConvertMap(m)) :
        b \in TokenRunBytecodes, m \in TokenRawMaps}

NextTokensRun ==
    \/ \E req \in inFlight, result \in TokenRunResults : CompleteRequest(req, result)
    \/ \E k \in 1..Len(segments) : ParseDone /\ ParseOpcodesCall(k)
    \/ ParseOpcodesStep

SpecTokensRun == Init /\ [][NextTokensRun]_vars /\ WF_vars(ParseOpcodesStep)

---------------------------------------------------------------------------
(* SpecHover: the pointer over the segments shown, the editor mounted or   *)
(* not, the text edited, files selected and deleted.                       *)

HoverFiles == {"3"}     \* the files selected
HoverDeleted == {"1"}        \* the files deleted
HoverTexts == {<<>>, <<"b", "\n", "c">>}
HoverResults ==
    {SuccessResult(<<"6", "0", "0", "1", "0", "0">>, <<"6", "0", "0", "1", "0", "0">>, None,
                   ConvertMap(Some(<<RawEntry(1, 1, 2, 1), RawEntry(2, 1, 1, 3)>>))),
     FailureResult(<<"syntax error">>)}

NextHover ==
    \/ \E id \in HoverFiles : HandleFileSelect(id)
    \/ \E id \in HoverDeleted : HandleFileDelete(id)
    \/ HandleEditorDidMount
    \/ \E k \in 1..Len(segments) : HandleSegmentHover(Some(segments[k]))
    \/ HandleSegmentHover(None)
    \/ \E value \in HoverTexts : HandleContentChange(value)
    \/ \E req \in inFlight, result \in HoverResults : CompleteRequest(req, result)

SpecHover == Init /\ [][NextHover]_vars

---------------------------------------------------------------------------
(* SpecDebounce: the scheduler of Spec over fewer inputs: the texts typed  *)
(* are the empty one, a blank one and one that is not blank, and every     *)
(* compilation ends with the same result.                                  *)

DebounceTexts == {<<>>, <<"\r", "\n">>, <<"x">>}
DebounceFiles == {"1", "3"}     \* the files selected
DebounceResult == FailureResult(<<"syntax error">>)

NextDebounce ==
    \/ \E id \in DebounceFiles : HandleFileSelect(id)
    \/ \E value \in DebounceTexts : HandleContentChange(value)
    \/ ToggleAutoCompile
    \/ TimerFire
    \/ HandleCompile
    \/ CompileCommand
    \/ HandleEditorDidMount
    \/ \E req \in inFlight : CompleteRequest(req, DebounceResult)

SpecDebounce == Init /\ [][NextDebounce]_vars

---------------------------------------------------------------------------
(* SpecService: the scheduler with a compilation service that answers     *)
(* later than the task that called it, the external asynchronous service   *)
(* handleCompileContent is written against: tasks run while requests are   *)
(* pending, and requests complete in any order.  (The HuffCompiler of this *)
(* repository answers within the calling task: see Idle.)                  *)

ServiceTexts == {<<"x">>}
ServiceFiles == {"3"}     \* the files selected

NextService ==
    \/ \E id \in ServiceFiles : HandleFileSelectTask(id)
    \/ \E value \in ServiceTexts : HandleContentChangeTask(value)
    \/ ToggleAutoCompileTask
    \/ TimerFireTask
    \/ HandleCompileTask
    \/ CompileCommandTask
    \/ HandleEditorDidMountTask
    \/ \E req \in inFlight : CompleteRequest(req, DebounceResult)

SpecService == Init /\ [][NextService]_vars

---------------------------------------------------------------------------
(* SpecSave: edits, file selections and the save command of the editor,    *)
(* which mounts again after the selected file was deleted.                 *)

SaveTexts == {<<>>, <<"x">>}

NextSave ==
    \/ \E id \in DOMAIN files : HandleFileSelect(id)
    \/ \E value \in SaveTexts : HandleContentChange(value)
    \/ HandleEditorDidMount
    \/ SaveCommand
    \/ \E id \in DOMAIN files : HandleFileDelete(id)
    \/ \E req \in inFlight, result \in SchedulerResults : CompleteRequest(req, result)

SpecSave == Init /\ [][NextSave]_vars

---------------------------------------------------------------------------
(* SpecRecompile: the scheduler over a blank text and one that is not      *)
(* blank.                                                                  *)

RecompileTexts == {<<" ">>, <<"x">>}
RecompileFiles == {"1", "3"}     \* the files selected

\* The continuation of handleCompileContent after its await.
Completion == \E req \in inFlight : CompleteRequest(req, DebounceResult)

NextRecompile ==
    \/ \E id \in RecompileFiles : HandleFileSelect(id)
    \/ \E value \in RecompileTexts : HandleContentChange(value)
    \/ ToggleAutoCompile
    \/ TimerFire
    \/ HandleCompile
    \/ CompileCommand
    \/ HandleEditorDidMount
    \/ Completion

SpecRecompile == Init /\ [][NextRecompile]_vars

---------------------------------------------------------------------------
(* SpecFiles: the file tree operations.                                    *)

NewName == "New"

FilesSelected == {"1", "3"}                    \* the files selected
FilesDeleted == {"1", "2", "3", NowId(2)}      \* the nodes deleted
FilesRenamed == {"2", "3"}                     \* the nodes renamed
FilesToggled == {"2"}                          \* the folders toggled
FilesParents == {None, Some("2"), Some(NowId(1))}
                                               \* the parents of the nodes created

NextFiles ==
    \/ \E id \in FilesSelected : HandleFileSelect(id)
    \/ \E id \in FilesDeleted : HandleFileDelete(id)
    \/ \E id \in FilesRenamed : HandleFileRename(id, NewName)
    \/ \E id \in FilesToggled : HandleToggleFolder(id)
    \/ \E parentId \in FilesParents, type \in {"file", "folder"} :
           HandleFileCreate(parentId, NewName, type)
    \/ HandleEditorDidMount
    \/ Completion

SpecFiles == Init /\ [][NextFiles]_vars

---------------------------------------------------------------------------
(* SpecCompile: compile over what wasmCompile returns or throws: errors,   *)
(* contracts under matching and other keys, maps with invalid entries.     *)

Contract(bytecode, runtime, constructor_map, runtime_map) ==
    [bytecode |-> bytecode, runtime |-> runtime,
     constructor_map |-> constructor_map, runtime_map |-> runtime_map]

CompileRawMaps ==
    {None, Some(<<>>),
     Some(<<RawEntry(2, 1, 3, 1), RawEntry(0, 1, 0, 2)>>),
     Some(<<RawEntry(0, 1, 0, 2), RawEntry(0 - 1, 1, 1, 1), RawEntry(1, 0 - 1, 2, 1)>>)}
CompileContracts ==
    {Contract(Some(<<"6", "0", "0", "1", "0", "0">>), Some(<<"0", "0">>), None, rm) :
        rm \in CompileRawMaps}
    \cup {Contract(Some(<<"6", "0", "0", "1", "0", "0">>), Some(<<"0", "0">>),
                   Some(<<RawEntry(0, 2, 0, 2)>>),
                   Some(<<RawEntry(2, 1, 3, 1), RawEntry(0, 1, 0, 2)>>))}
    \cup {Contract(None, Some(<<"0", "1">>), None, None),
          Contract(Some(<<>>), None, None, None),
          Contract(Some(<<"0", "x", "6", "0">>), Some(<<>>), None, Some(<<>>))}
OtherContract == Contract(Some(<<"f", "f">>), Some(<<"f", "f">>), None, None)
PairedContracts ==
    {Contract(Some(<<"6", "0", "0", "1", "0", "0">>), Some(<<"0", "0">>), None, rm) :
        rm \in {None, Some(<<RawEntry(2, 1, 3, 1), RawEntry(0, 1, 0, 2)>>)}}

CompileKeys == {"SimpleStore.huff", "./SimpleStore.huff", "SimpleStore", "Main"}
ContractsMaps ==
    {None, Some(<<>>)}
    \cup {Some(<<[key |-> k, contract |-> c]>>) : k \in CompileKeys, c \in CompileContracts}
    \cup {Some(<<[key |-> k, contract |-> c], [key |-> "Token", contract |-> OtherContract]>>) :
              k \in CompileKeys, c \in PairedContracts}
    \cup {Some(<<[key |-> "Token", contract |-> OtherContract], [key |-> k, contract |-> c]>>) :
              k \in CompileKeys, c \in PairedContracts}
EmptyErrorsContractsMaps ==
    {None,
     Some(<<[key |-> "Main", contract |-> Contract(Some(<<>>), None, None, None)]>>)}
FailedContractsMaps ==
    {None,
     Some(<<[key |-> "SimpleStore.huff",
             contract |-> Contract(Some(<<"6", "0">>), Some(<<"6", "0">>), None, None)]>>)}
WasmThrown == {[isError |-> TRUE, message |-> "unreachable"],
               [isError |-> FALSE, message |-> ""]}
WasmReturned(errors, contracts) ==
    [thrown |-> None, errors |-> errors, contracts |-> contracts]
WasmThrew(thrown) == [thrown |-> Some(thrown), errors |-> None, contracts |-> None]

NextCompile ==
    \/ \E req \in inFlight, contracts \in ContractsMaps :
           \E fileName \in RequestFileNames(req) :
               CompileReturns(req, fileName, WasmReturned(None, contracts))
    \/ \E req \in inFlight, contracts \in EmptyErrorsContractsMaps :
           \E fileName \in RequestFileNames(req) :
               CompileReturns(req, fileName, WasmReturned(Some(<<>>), contracts))
    \/ \E req \in inFlight, contracts \in FailedContractsMaps :
           \E fileName \in RequestFileNames(req) :
               CompileReturns(req, fileName, WasmReturned(Some(<<"e2", "e1">>), contracts))
    \/ \E req \in inFlight, thrown \in WasmThrown :
           \E fileName \in RequestFileNames(req) :
               CompileReturns(req, fileName, WasmThrew(thrown))
    \/ \E req \in inFlight : CompileRejects(req, "init")
    \/ \E id \in DOMAIN files : HandleFileSelect(id)
    \/ \E checked \in BOOLEAN : SetShowRuntime(checked)

SpecCompile == Init /\ [][NextCompile]_vars

---------------------------------------------------------------------------
(* The properties.                                                         *)

\* The bytecode and source map the viewer shows, and its map's entries.
shownBytecode == CleanBytecode(CurrentBytecode(compileResult, showRuntime))
shownMap == CurrentSourceMap(compileResult, showRuntime)
EntriesOf(map) == IF IsSome(map) THEN Get(map) ELSE <<>>
SegmentEnd(segment) == segment.offset + Len(segment.bytes)

\* C1: the segments shown start at offset 0, each next segment starts where
\* the previous one ends (hence ascending, no overlap, no hole), and their
\* bytes concatenated are the bytecode (without its 0x prefix), for every
\* map, unordered, overlapping or out of range.
C1_SegmentsCoverBytecode ==
    ViewerRendered =>
        /\ Len(segments) >= 1
        /\ segments[1].offset = 0
        /\ \A k \in 1..(Len(segments) - 1) :
               segments[k + 1].offset = SegmentEnd(segments[k])
        /\ Concat([k \in 1..Len(segments) |-> segments[k].bytes]) = shownBytecode

\* The mapped segments, in order: one for each entry of the sorted map.
RECURSIVE MappedOnly(_)
MappedOnly(segs) ==
    IF segs = <<>> THEN <<>>
    ELSE IF IsSome(Head(segs).sourceStart)
         THEN <<Head(segs)>> \o MappedOnly(Tail(segs))
         ELSE MappedOnly(Tail(segs))

\* C3: an entry that starts before the cursor, the end of the previous
\* entry's segment, gets a mapped segment that starts at the cursor and
\* covers only the remainder up to the entry's end; no character is in two
\* segments.
C3_OverlapClamped ==
    (ViewerRendered /\ Len(EntriesOf(shownMap)) > 0) =>
        LET sorted == SortByOffset(EntriesOf(shownMap))
            mapped == MappedOnly(segments)
        IN  /\ \A k \in 2..Len(sorted) :
                   LET cursor == sorted[k - 1].byte_offset + sorted[k - 1].length
                       entryEnd == sorted[k].byte_offset + sorted[k].length
                   IN  sorted[k].byte_offset < cursor =>
                           /\ mapped[k].offset = cursor
                           /\ mapped[k].bytes = Slice(shownBytecode, cursor, entryEnd)
            /\ \A j, k \in 1..Len(segments) :
                   j < k => SegmentEnd(segments[j]) <= segments[k].offset

Shifted(map, n) ==
    [k \in 1..Len(map) |->
        [byte_offset  |-> map[k].byte_offset + n,
         length       |-> map[k].length,
         source_start |-> map[k].source_start,
         source_end   |-> map[k].source_end]]

\* The full-bytecode view of a successful result.
FullView == ViewerRendered /\ ~showRuntime
initLength ==
    Len(Get(Get(compileResult).bytecode)) - Len(Get(Get(compileResult).runtime))

\* C4: in the full-bytecode view of a result with a constructor map, a
\* runtime map and a positive initialization length L, the map shown is the
\* constructor entries unchanged, then the runtime entries with byte_offset
\* increased by L and nothing else changed.
C4_StitchBothMaps ==
    (/\ FullView
     /\ IsSome(Get(compileResult).constructor_map)
     /\ IsSome(Get(compileResult).runtime_map)
     /\ initLength > 0) =>
        EntriesOf(shownMap) =
            Get(Get(compileResult).constructor_map)
            \o Shifted(Get(Get(compileResult).runtime_map), initLength)

\* C4 witness: L = 20 and a runtime entry at offset 4 shown at offset 24,
\* behind a constructor entry.
C4_Witness ==
    /\ FullView
    /\ initLength = 20
    /\ IsSome(Get(compileResult).constructor_map)
    /\ Len(Get(Get(compileResult).constructor_map)) = 1
    /\ IsSome(Get(compileResult).runtime_map)
    /\ Len(Get(Get(compileResult).runtime_map)) = 1
    /\ Get(Get(compileResult).runtime_map)[1].byte_offset = 4
    /\ Len(EntriesOf(shownMap)) = 2
    /\ EntriesOf(shownMap)[2].byte_offset = 24

\* A result with a runtime map and no constructor map, in the full view.
RuntimeMapOnly ==
    /\ FullView
    /\ ~IsSome(Get(compileResult).constructor_map)
    /\ IsSome(Get(compileResult).runtime_map)

\* C5 as claimed: with only a runtime map, the runtime entries are shown
\* with unchanged byte_offset for every constructor length.
C5_Original ==
    RuntimeMapOnly => EntriesOf(shownMap) = Get(Get(compileResult).runtime_map)

\* C5 amended: with only a runtime map, the runtime entries are shown with
\* unchanged byte_offset when the constructor length is 0, and with
\* byte_offset increased by the constructor length when it is not.
C5_RuntimeMapOnly ==
    RuntimeMapOnly =>
        EntriesOf(shownMap) =
            IF initLength = 0
            THEN Get(Get(compileResult).runtime_map)
            ELSE Shifted(Get(Get(compileResult).runtime_map), initLength)

\* C5 witness: only a runtime map, a positive constructor length, and the
\* entry shown shifted.
C5_Witness ==
    /\ RuntimeMapOnly
    /\ initLength > 0
    /\ Len(Get(Get(compileResult).runtime_map)) > 0
    /\ EntriesOf(shownMap)[1].byte_offset =
           Get(Get(compileResult).runtime_map)[1].byte_offset + initLength

---------------------------------------------------------------------------
(* parseOpcodes.                                                           *)

\* A two-digit byte 0x60..0x7f: its first digit is 6 or 7.
IsPushByte(text) ==
    Len(text) = 2 /\ text[1] \in {"6", "7"} /\ HexDigit(text[2]) # NaN

\* The number of immediate bytes of a push byte: its value - 0x60 + 1.
ImmediateBytes(text) == (HexDigit(text[1]) - 6) * 16 + HexDigit(text[2]) + 1

SpanOf(className, text) == [className |-> className, text |-> text]
Classes(result) == [k \in 1..Len(result) |-> SpanOf(result[k].className, result[k].text)]

\* C6: the spans emitted so far lie left to right from character 0, each
\* where the previous one ends; the span after a push instruction is one
\* immediate-data span of N = value - 0x60 + 1 bytes, cut to the bytes that
\* remain; any other span is one byte, a push instruction when its value is
\* in 0x60..0x7f and a plain instruction otherwise; a finished scan leaves
\* no character out.  602a01 gives [push 60, data 2a, instruction 01] and
\* 6001600201 five spans.
C6_TokenizerClassification ==
    LET r == parse.result
        b == parse.bytes
        remaining(k) == Len(b) - r[k].key
    IN  /\ \A k \in 1..Len(r) :
               /\ r[k].key = IF k = 1 THEN 0 ELSE r[k - 1].key + Len(r[k - 1].text)
               /\ r[k].text = Slice(b, r[k].key, r[k].key + Len(r[k].text))
               /\ Len(r[k].text) > 0
               /\ IF k > 1 /\ r[k - 1].className = "opcode-push"
                  THEN /\ r[k].className = "opcode-push-data"
                       /\ Len(r[k].text) =
                              Min(2 * ImmediateBytes(r[k - 1].text), remaining(k))
                  ELSE /\ Len(r[k].text) = Min(2, remaining(k))
                       /\ r[k].className =
                              IF IsPushByte(r[k].text) THEN "opcode-push" ELSE "opcode"
        /\ LET scanned == IF r = <<>> THEN 0 ELSE r[Len(r)].key + Len(r[Len(r)].text)
           IN  /\ scanned = Min(parse.i, Len(b))
               /\ ParseDone => scanned = Len(b)
        /\ (ParseDone /\ b = <<"6", "0", "2", "a", "0", "1">>) =>
               Classes(r) = <<SpanOf("opcode-push", <<"6", "0">>),
                              SpanOf("opcode-push-data", <<"2", "a">>),
                              SpanOf("opcode", <<"0", "1">>)>>
        /\ (ParseDone /\ b = <<"6", "0", "0", "1", "6", "0", "0", "2", "0", "1">>) =>
               [k \in 1..Len(r) |-> r[k].className] =
                   <<"opcode-push", "opcode-push-data", "opcode-push",
                     "opcode-push-data", "opcode">>

\* C6 witness: 6101 has been scanned: a push of two bytes whose data is cut
\* to the one byte the segment has.
C6_Witness ==
    /\ ParseDone
    /\ parse.bytes = <<"6", "1", "0", "1">>
    /\ Classes(parse.result) = <<SpanOf("opcode-push", <<"6", "1">>),
                                 SpanOf("opcode-push-data", <<"0", "1">>)>>

---------------------------------------------------------------------------
(* The editor highlight.                                                   *)

DecorationIds == {d.id : d \in editorDecorations}
RefIds == {decorationsRef[k] : k \in 1..Len(decorationsRef)}

\* The decorations present in the editor on screen: none while no editor
\* is mounted.
PresentIds == IF HasModel THEN DecorationIds ELSE {}

\* C7: an editor never holds more than one highlight decoration, and after
\* every call of handleBytecodeHover decorationsRef holds exactly the
\* handles of the decorations present in the editor; so a new decoration is
\* in the editor only once the previous one is removed.
C7_SingleHighlight ==
    [][/\ Cardinality(editorDecorations') <= 1
       /\ (\E k \in 1..Len(segments) : HandleSegmentHover(Some(segments[k])))
              \/ HandleSegmentHover(None) =>
                  /\ RefIds' = PresentIds'
                  /\ Len(decorationsRef') = Cardinality(RefIds')]_vars

\* C7 witness: a second highlight has replaced the first.
C7_Witness ==
    /\ decorationsRef = <<2>>
    /\ DecorationIds = {2}

\* editor.getModel().getOffsetAt(position): the characters of the lines
\* before the position's line, their line breaks included, plus the column.
OffsetAt(text, lineNumber, column) ==
    LET breaks == {k \in 1..Len(text) : text[k] = "\n"}
        before == {k \in breaks : Cardinality({j \in breaks : j <= k}) = lineNumber - 1}
        lineStart == IF lineNumber = 1 THEN 0 ELSE CHOOSE k \in before : TRUE
    IN  lineStart + column - 1

IsMapped(segment) ==
    IsSome(segment) /\ IsSome(Get(segment).sourceStart) /\ IsSome(Get(segment).sourceEnd)

HoverTargets == {None} \cup {Some(segments[k]) : k \in 1..Len(segments)}

\* What hovering `segment` leaves behind in a mounted editor.
HoverOutcome(segment) ==
    IF IsMapped(segment)
    THEN LET from == Min(Get(Get(segment).sourceStart), Len(currentContent))
             to == Min(Get(Get(segment).sourceEnd), Len(currentContent))
         IN  /\ Cardinality(editorDecorations') = 1
             /\ \A d \in editorDecorations' :
                    /\ d.id \notin DecorationIds
                    /\ OffsetAt(currentContent, d.range.startLineNumber,
                                d.range.startColumn) = from
                    /\ OffsetAt(currentContent, d.range.endLineNumber,
                                d.range.endColumn) = to
                    /\ IsSome(revealed')
                    /\ Get(revealed').lineNumber = d.range.startLineNumber
                    /\ Get(revealed').column = d.range.startColumn
    ELSE /\ editorDecorations' = {}
         /\ decorationsRef' = <<>>
         /\ revealed' = revealed

\* What hovering leaves behind while no editor is mounted: no decoration is
\* added and nothing scrolls.  Before the first onMount the handler returns
\* at once; on the disposed editor of an unmounted <MonacoEditor> it resets
\* decorationsRef at most.
UnmountedOutcome ==
    /\ editorDecorations' = editorDecorations
    /\ nextDecorationId' = nextDecorationId
    /\ revealed' = revealed
    /\ decorationsRef' = IF IsSome(editorInstance) THEN <<>> ELSE decorationsRef

\* C9 as stated: hovering a mapped segment leaves exactly one decoration, a
\* new one, over the positions of the offsets sourceStart and sourceEnd in
\* the editor text, and scrolls to its start; hovering an unmapped segment
\* or leaving a segment leaves no decoration and does not scroll.  It fails
\* when a mapped segment is hovered while no editor is mounted: the viewer
\* is rendered before the first onMount, and after the selected file was
\* deleted.
C9_Original ==
    [][\A segment \in HoverTargets :
           HandleSegmentHover(segment) => HoverOutcome(segment)]_vars

\* C9: with an editor mounted, hovering a mapped segment leaves exactly one
\* decoration, a new one, over the positions of the offsets sourceStart and
\* sourceEnd in the editor text, and scrolls to its start, and hovering an
\* unmapped segment or leaving a segment leaves no decoration and does not
\* scroll; with no editor mounted, hovering any segment or leaving one adds
\* no decoration and does not scroll.
C9_HoverDispatch ==
    [][\A segment \in HoverTargets :
           HandleSegmentHover(segment) =>
               IF IsSome(editorInstance) /\ HasModel
               THEN HoverOutcome(segment)
               ELSE UnmountedOutcome]_vars

\* C9 witness: a mapped segment is hovered, its decoration starts on line 2
\* of the text, and the editor has scrolled there.
C9_Witness ==
    /\ IsMapped(hoveredSegment)
    /\ Cardinality(editorDecorations) = 1
    /\ \A d \in editorDecorations : d.range.startLineNumber = 2
    /\ IsSome(revealed)
    /\ Get(revealed).lineNumber = 2

---------------------------------------------------------------------------
(* The debounce and the manual mode.                                       *)

\* The one timer a change to `content` must leave pending.
TimerFor(content) == {t \in timers' : t.content = content}

\* A step that changes the editor text in auto mode.
TextChangeInAuto == autoCompile /\ autoCompile' /\ currentContent' # currentContent

\* The debounce timer fires.
TimerFires == \E t \in timers : timers' = timers \ {t} /\ currentContent' = currentContent
                                  /\ autoCompile' = autoCompile

\* C8 as claimed: in auto mode every change of the text leaves exactly one
\* timer pending, carrying the new text, and a timer that fires issues one
\* request carrying the text of the last edit.
C8_Original ==
    [][/\ TextChangeInAuto =>
              (Cardinality(timers') = 1 /\ TimerFor(currentContent') = timers')
       /\ TimerFires =>
              /\ nextSeq' = nextSeq + 1
              /\ Get(lastRequest').content = currentContent]_vars

\* C8 amended: in auto mode every change of the text cancels the pending
\* timer and, when the new text is not empty and the selected file exists,
\* starts one new timer carrying the new text (an empty text starts none);
\* so at most one timer is pending, it carries the current text, and a
\* timer that fires issues one request carrying the current text when that
\* text is not blank, and none when it is blank.
C8_Debounce ==
    /\ [](/\ Cardinality(timers) <= 1
          /\ \A t \in timers : autoCompile /\ t.content = currentContent /\ t.content # <<>>)
    /\ [][/\ TextChangeInAuto =>
                 IF /\ currentContent' # <<>>
                    /\ IsSome(selectedFile')
                    /\ IsSome(FindFileById(files', Get(selectedFile')))
                 THEN Cardinality(timers') = 1 /\ TimerFor(currentContent') = timers'
                 ELSE timers' = {}
          /\ TimerFires =>
                 IF IsBlank(currentContent)
                 THEN nextSeq' = nextSeq /\ inFlight' = inFlight
                 ELSE /\ nextSeq' = nextSeq + 1
                      /\ Get(lastRequest').content = currentContent
                      /\ Get(lastRequest').via = "timer"
          /\ (nextSeq' # nextSeq /\ Get(lastRequest').via = "timer") =>
                 (TimerFires /\ Get(lastRequest').content = currentContent)]_vars

\* C8 witness: in auto mode two text changes were made in a row, the
\* second while the timer of the first was pending; the timer of the second
\* has fired, and the one request issued since the first load is the
\* timer's, carrying the last text.
C8_Witness ==
    /\ autoCompile
    /\ burst = 2
    /\ currentContent = <<"x">>
    /\ timers = {}
    /\ nextSeq = 3
    /\ lastRequest = Some([content |-> <<"x">>, fileName |-> "SimpleStore.huff",
                           via |-> "timer"])

\* C10: in manual mode no timer is pending, and a step taken in manual mode
\* issues a request only through handleCompile (the Compile button or
\* Cmd/Ctrl+Enter), never through a text change, a file selection or a
\* timer.
C10_ManualMode ==
    /\ [](~autoCompile => timers = {})
    /\ [][(~autoCompile /\ nextSeq' # nextSeq) =>
              /\ Get(lastRequest').via = "manual"
              /\ currentContent' = currentContent
              /\ selectedFile' = selectedFile]_vars

\* C10 witness: in manual mode, before the editor has mounted, the Compile
\* button has issued a request.
C10_Witness ==
    /\ ~autoCompile
    /\ ~IsSome(commandClosure)
    /\ IsSome(lastRequest)
    /\ Get(lastRequest).via = "manual"

---------------------------------------------------------------------------
(* compile.                                                                *)

\* The compile call compileResult was computed from returned (did not throw).
CallReturned == IsSome(wasmResult) /\ ~IsSome(Get(wasmResult).result.thrown)
serviceErrors == Get(wasmResult).result.errors
serviceContracts == Get(wasmResult).result.contracts
HasErrors == IsSome(serviceErrors) /\ Len(Get(serviceErrors)) > 0

\* The contracts keyed by the file name, by ./ + file name, or by the file
\* name without .huff; the contracts compile may take its result from.
KeyMatches(key, fileName) ==
    key = fileName \/ key = "./" \o fileName \/ key \o ".huff" = fileName
Matching ==
    {k \in 1..Len(Get(serviceContracts)) :
        KeyMatches(Get(serviceContracts)[k].key, Get(wasmResult).fileName)}
Candidates == IF Matching # {} THEN Matching ELSE {1}

\* `internal` is the entry by entry normalization of the raw map `raw`.
NormalizedFrom(internal, raw) ==
    /\ IsSome(internal) = IsSome(raw)
    /\ IsSome(raw) =>
           /\ Len(Get(internal)) = Len(Get(raw))
           /\ \A j \in 1..Len(Get(raw)) :
                  Get(internal)[j] =
                      [byte_offset  |-> 2 * Get(raw)[j].pc,
                       length       |-> 2 * Get(raw)[j].bytecode_length,
                       source_start |-> Get(raw)[j].source_start,
                       source_end   |-> Get(raw)[j].source_start
                                            + Get(raw)[j].source_length]

\* C11: the maps of a successful result of compile are, entry by entry and
\* in the same order, the raw entries of the contract used (the matching
\* one, else the first) with byte_offset = 2 pc, length = 2 bytecode_length,
\* source_start unchanged and source_end = source_start + source_length.
C11_CoordinateNormalization ==
    (CallReturned /\ Get(compileResult).success) =>
        \E k \in Candidates :
            /\ NormalizedFrom(Get(compileResult).constructor_map,
                              Get(serviceContracts)[k].contract.constructor_map)
            /\ NormalizedFrom(Get(compileResult).runtime_map,
                              Get(serviceContracts)[k].contract.runtime_map)

\* C11 witness: the fallback path has normalized a runtime map of two
\* entries, given as pc 2 then pc 0.
C11_Witness ==
    /\ CallReturned
    /\ Get(compileResult).success
    /\ Matching = {}
    /\ Get(compileResult).runtime_map =
           Some(<<[byte_offset |-> 4, length |-> 2, source_start |-> 3, source_end |-> 4],
                  [byte_offset |-> 0, length |-> 2, source_start |-> 0, source_end |-> 2]>>)

MapEntries(result) ==
    {EntriesOf(result.constructor_map)[k] : k \in 1..Len(EntriesOf(result.constructor_map))}
    \cup {EntriesOf(result.runtime_map)[k] : k \in 1..Len(EntriesOf(result.runtime_map))}

\* C12: no entry of the maps of a successful result comes from a raw entry
\* with a negative pc or a negative bytecode_length: none has a negative
\* byte_offset or a negative length.
C12_InvalidEntriesRejected ==
    (IsSome(compileResult) /\ Get(compileResult).success) =>
        \A entry \in MapEntries(Get(compileResult)) :
            entry.byte_offset >= 0 /\ entry.length >= 0

\* C13: the result applied is either a success with a bytecode and no
\* errors, or a failure with a non-empty error list and no bytecode.
C13_WellFormedResult ==
    IsSome(compileResult) =>
        LET r == Get(compileResult)
        IN  \/ r.success /\ IsSome(r.bytecode) /\ ~IsSome(r.errors)
            \/ /\ ~r.success
               /\ IsSome(r.errors)
               /\ Len(Get(r.errors)) > 0
               /\ ~IsSome(r.bytecode)

\* C13 witness: the service returned an empty error list and a contract
\* with an empty bytecode and no runtime: a success with bytecode 0x.
C13_Witness ==
    /\ CallReturned
    /\ serviceErrors = Some(<<>>)
    /\ Get(compileResult).success
    /\ Get(compileResult).bytecode = Some(<<"0", "x">>)
    /\ ~IsSome(Get(compileResult).errors)

\* C14: when the service returned a non-empty error list the result applied
\* is a failure with exactly these errors, contracts or not; and while a
\* failure is applied the viewer is not rendered and the bytecode and the
\* source map computed for it are empty.
C14_CompilationFailure ==
    /\ (CallReturned /\ HasErrors) =>
           /\ ~Get(compileResult).success
           /\ Get(compileResult).errors = serviceErrors
           /\ ~IsSome(Get(compileResult).bytecode)
    /\ (IsSome(compileResult) /\ ~Get(compileResult).success) =>
           /\ ~ViewerRendered
           /\ CurrentBytecode(compileResult, showRuntime) = <<>>
           /\ CurrentSourceMap(compileResult, showRuntime) = None

\* C14 witness: the second compilation returned errors together with a
\* contract, and its failure is applied.
C14_Witness ==
    /\ CallReturned
    /\ HasErrors
    /\ IsSome(serviceContracts)
    /\ appliedSeq = 2
    /\ Get(compileResult).errors = Some(<<"e2", "e1">>)

\* C15: when the service returned contracts and no errors and no contract
\* is keyed by the file name, ./ + file name or the file name without
\* .huff, the result is that of the one contract when exactly one exists,
\* and the 'No bytecode generated' failure otherwise.
C15_FallbackOnlyForSingleContract ==
    (CallReturned /\ ~HasErrors /\ IsSome(serviceContracts) /\ Matching = {}) =>
        IF Len(Get(serviceContracts)) = 1
        THEN Get(compileResult).success
        ELSE /\ ~Get(compileResult).success
             /\ Get(compileResult).errors = Some(<<NoBytecodeGenerated>>)

---------------------------------------------------------------------------
(* reconstructBytecodeMap without an initialization length.                *)

StitchMaps == {ConvertMap(m) : m \in StitchRawMaps}

\* C16: with a runtime map and a constructorLength of 0 or undefined, the
\* map built is the constructor entries, if any, followed by the runtime
\* entries with unchanged byte_offset: in the full view of a result whose
\* bytecode and runtime have the same length, and for the function given
\* 0 or undefined.
C16_NoInitLengthNoShift ==
    /\ (FullView /\ IsSome(Get(compileResult).runtime_map) /\ initLength = 0) =>
           EntriesOf(shownMap) =
               EntriesOf(Get(compileResult).constructor_map)
                   \o Get(Get(compileResult).runtime_map)
    /\ \A cm \in StitchMaps, rm \in StitchMaps \ {None}, n \in {None, Some(0)} :
           EntriesOf(ReconstructBytecodeMap(cm, rm, n)) = EntriesOf(cm) \o Get(rm)

\* C16 witness: the full view of a result with a constructor map and a
\* runtime map, bytecode and runtime of the same length; the runtime entry
\* at byte_offset 4 is shown at 4, after the constructor entries.
C16_Witness ==
    /\ FullView
    /\ initLength = 0
    /\ EntriesOf(Get(compileResult).constructor_map) # <<>>
    /\ IsSome(Get(compileResult).runtime_map)
    /\ Len(EntriesOf(shownMap)) = 2
    /\ EntriesOf(shownMap)[2] = Get(Get(compileResult).runtime_map)[1]
    /\ EntriesOf(shownMap)[2].byte_offset = 4

---------------------------------------------------------------------------
(* The segments of a bytecode without a map.                               *)

\* The bytecode handed to the viewer, a leading 0x removed.
Without0x(text) ==
    IF Len(text) >= 2 /\ SubSeq(text, 1, 2) = <<"0", "x">>
    THEN SubSeq(text, 3, Len(text)) ELSE text

\* C17: when the source map handed to the viewer is undefined or has no
\* entries, there is exactly one segment: offset 0, no sourceStart and no
\* sourceEnd, and the whole bytecode without its leading 0x as bytes, the
\* empty bytecode included.
C17_EmptyMapOneSegment ==
    (ViewerRendered /\ EntriesOf(shownMap) = <<>>) =>
        /\ Len(segments) = 1
        /\ segments[1].offset = 0
        /\ ~IsSome(segments[1].sourceStart)
        /\ ~IsSome(segments[1].sourceEnd)
        /\ segments[1].bytes = Without0x(CurrentBytecode(compileResult, showRuntime))

\* C17 witness: the bytecode 0x with a map of no entries is shown as one
\* segment without bytes.
C17_Witness ==
    /\ ViewerRendered
    /\ CurrentBytecode(compileResult, showRuntime) = <<"0", "x">>
    /\ shownMap = Some(<<>>)
    /\ Len(segments) = 1
    /\ segments[1].bytes = <<>>

---------------------------------------------------------------------------
(* parseOpcodes: partition and termination.                                *)

SpanTexts(result) == Concat([k \in 1..Len(result) |-> result[k].text])

\* C18: the texts of the spans emitted so far, concatenated in order, are
\* the characters of the input before the cursor, and the whole input when
\* the scan is finished; every iteration moves the cursor forward; and a
\* scan that has started finishes.
C18_TokenizerPartition ==
    /\ [](/\ SpanTexts(parse.result) = SubSeq(parse.bytes, 1, Min(parse.i, Len(parse.bytes)))
          /\ ParseDone => SpanTexts(parse.result) = parse.bytes)
    /\ [][ParseOpcodesStep => parse'.i > parse.i]_vars
    /\ (~ParseDone ~> ParseDone)

\* C18 witness: 0160 has been scanned to its end: the push 60 is its last
\* byte and has no data span.
C18_Witness ==
    /\ ParseDone
    /\ parse.bytes = <<"0", "1", "6", "0">>
    /\ Len(parse.result) = 2
    /\ parse.result[2].className = "opcode-push"
    /\ parse.i = 4

---------------------------------------------------------------------------
(* The in-flight indicator.                                                *)

---------------------------------------------------------------------------
(* The selection and the file tree.                                        *)

\* C20: selectedFile is null or the id of a file node of the tree, and
\* without a selection the editor content is empty.
C20_SelectionValid ==
    IF IsSome(selectedFile)
    THEN /\ Get(selectedFile) \in DOMAIN files
         /\ files[Get(selectedFile)].type = "file"
    ELSE currentContent = <<>>

\* C21: whenever the Cmd/Ctrl+S command runs, the stored content of the file
\* selected at that moment becomes the editor text of that moment, and the
\* stored content of every other file is unchanged.
C21_SaveCommand ==
    [][saves' # saves =>
          /\ IsSome(selectedFile) =>
                 files'[Get(selectedFile)].content = currentContent
          /\ \A n \in DOMAIN files :
                 Some(n) # selectedFile => files'[n] = files[n]]_vars

---------------------------------------------------------------------------
(* Eventual recompilation.                                                 *)

\* The name of the selected file.
SelectedName ==
    IF IsSome(selectedFile) /\ Get(selectedFile) \in DOMAIN files
    THEN Some(files[Get(selectedFile)].name) ELSE None

\* In auto mode with a file selected, the text was changed to a text T that
\* is not blank, the timer started for T has fired, and the request it
\* issued, carrying T and the selected file's name, is the last one issued.
Recompiled ==
    /\ autoCompile
    /\ IsSome(SelectedName)
    /\ burst >= 1
    /\ ~IsBlank(currentContent)
    /\ timers = {}
    /\ lastRequest = Some([content |-> currentContent,
                           fileName |-> Get(SelectedName), via |-> "timer"])

\* A step that is no edit, no mode toggle and no file operation.
NothingDone == UNCHANGED <<currentContent, autoCompile, selectedFile, files>>

=============================================================================
